---------------------------- MODULE Spec2Model ----------------------------
(***************************************************************************)
(* A model of the Intcode virtual machine of intcode.rs: the parameter and *)
(* instruction decoder (parameter.rs, instruction.rs), the process         *)
(* executor and its State (process.rs) and the inter-process channel       *)
(* (ipc.rs).                                                               *)
(*                                                                         *)
(* Encoding of machine integers.  isize values are plain integers; the     *)
(* programs explored keep them far from the 64-bit limits.  A usize is a   *)
(* non-negative integer; the cast `v as usize` of a negative isize yields  *)
(* 2^64 + v in the program.  TLC's integers are 32 bits wide, so the model *)
(* scales the modulus to UsizeModulus = 2^30: every address the program    *)
(* can form from the small values explored is either small (>= 0) or       *)
(* "huge" (UsizeModulus + v for a small negative v), and a huge address is *)
(* beyond every dense memory, exactly as 2^64 + v is.                      *)
(***************************************************************************)
EXTENDS Integers, Sequences, FiniteSets, TLC

VARIABLES
    state,      \* Process.state: the State of the process (process.rs 10-26)
    channels,   \* the buffer and notifier of the input ("in") and output ("out") channel
    pc,         \* where the process is: "idle", inside step at an await, or "panicked"
    tx,         \* the external sender endpoints of the input channel, by sender id
    log,        \* history: per channel, the values appended, received and sent
    last,       \* history: what the last call of step / set_memory did
    calls,      \* history: how many times step, send, recv and set_memory were called
    rcv,        \* the holder of a receiver outside the process: where its recv is and
                \* what its last recv returned
    mem,        \* history: the memory as loaded and the addresses written since
    until,      \* the call of run_until the process is in or has last returned from
    app,        \* App: the control queue, driver task and shared State handle of
                \* the process, the caller of App::step and the reader of states()
    ring        \* App: the five processes App::new wires into a ring, their
                \* channels, control queues, driver tasks and shared States

vars == <<state, channels, pc, tx, log, last, calls, rcv, mem, until, app, ring>>

\* Option<isize>: None is the empty sequence, Some(v) the sequence <<v>>.
None == << >>
Some(v) == <<v>>

(***************************************************************************)
(* Bounds of the exploration.                                              *)
(***************************************************************************)
MaxSteps == 3      \* calls of step in SpecStep
MaxCalls == 5      \* calls of step in Spec
MaxSends == 2      \* calls of send by the senders of "in"
MaxRecvs == 2      \* calls of recv by the holder of a receiver
MaxSets == 2       \* calls of set_memory
MaxRuns == 2       \* calls of run_until
MaxRunSteps == 100 \* calls of step made by one call of run
MaxRequests == 3   \* calls of App::step
MaxSnapshots == 2  \* calls of Channel::buffer
MaxFlood == 100    \* calls of App::step by a caller that steps one process only

-----------------------------------------------------------------------------
(***************************************************************************)
(* Machine arithmetic.                                                     *)
(***************************************************************************)

\* The modulus of `as usize`, scaled from 2^64 (see the module comment).
UsizeModulus == 2^30

\* `v as usize` for an isize v (process.rs 206, 213, 263, 271; parameter.rs 30).
AsUsize(v) == IF v >= 0 THEN v ELSE UsizeModulus + v

\* Rust's `/` on isize truncates toward zero (parameter.rs 28).
Div(a, b) == IF a >= 0 THEN a \div b ELSE -((-a) \div b)

\* Rust's `%` on isize takes the sign of the dividend (process.rs 82).
Rem(a, b) == a - b * Div(a, b)

\* 10_isize.pow(n) (parameter.rs 28).
RECURSIVE Pow10(_)
Pow10(n) == IF n = 0 THEN 1 ELSE 10 * Pow10(n - 1)

-----------------------------------------------------------------------------
(***************************************************************************)
(* parameter.rs                                                            *)
(***************************************************************************)

Position(u)  == [mode |-> "Position",  value |-> u]
Immediate(v) == [mode |-> "Immediate", value |-> v]
Relative(d)  == [mode |-> "Relative",  value |-> d]
Panic        == [mode |-> "panic"]

\* Mutant: the mode of operand position is read one digit too low.
ParameterNew_digit_below(opcode, position, value) ==
    LET mode == Rem(Div(opcode, Pow10(position)), 10)
    IN  CASE mode = 0 -> Position(AsUsize(value))
          [] mode = 1 -> Immediate(value)
          [] mode = 2 -> Relative(value)
          [] OTHER    -> Panic

\* Mutant: an unknown mode digit is taken as Position.
ParameterNew_lenient(opcode, position, value) ==
    LET mode == Rem(Div(opcode, Pow10(position + 1)), 10)
    IN  CASE mode = 1 -> Immediate(value)
          [] mode = 2 -> Relative(value)
          [] OTHER    -> Position(AsUsize(value))

\* Parameter::new(opcode, position, value)
ParameterNew(opcode, position, value) ==
    LET mode == Rem(Div(opcode, Pow10(position + 1)), 10)
    IN  CASE mode = 0 -> Position(AsUsize(value))
          [] mode = 1 -> Immediate(value)
          [] mode = 2 -> Relative(value)
          [] OTHER    -> Panic

-----------------------------------------------------------------------------
(***************************************************************************)
(* instruction.rs                                                          *)
(***************************************************************************)

\* Mutant: the jumps are counted with the three-operand instructions.
parameter_count_jump3(instruction) ==
    CASE instruction.variant \in {"Add", "Multiply", "LessThan", "Equals",
                                  "JumpIfTrue", "JumpIfFalse"} -> 3
      [] instruction.variant = "Halt" -> 0
      [] OTHER -> 1

\* Instruction::parameter_count
parameter_count(instruction) ==
    LET variant == instruction.variant
    IN
    CASE variant = "Add"                      -> 3
      [] variant = "Multiply"                 -> 3
      [] variant = "Input"                    -> 1
      [] variant = "Output"                   -> 1
      [] variant = "JumpIfTrue"               -> 2
      [] variant = "JumpIfFalse"              -> 2
      [] variant = "LessThan"                 -> 3
      [] variant = "Equals"                   -> 3
      [] variant = "AdjustRelativeBaseOffset" -> 1
      [] variant = "Halt"                     -> 0

-----------------------------------------------------------------------------
(***************************************************************************)
(* process.rs: State                                                       *)
(***************************************************************************)

\* State::new(memory)
StateNew(memory) ==
    [memory             |-> memory,
     additional_memory  |-> << >>,
     instruction_pointer |-> 0,
     relative_base      |-> 0,
     last_output        |-> None,
     last_input         |-> None,
     halted             |-> FALSE]

\* impl Index<usize> for State: state[index]
Index(s, index) ==
    IF index < Len(s.memory)
    THEN s.memory[index + 1]
    ELSE IF index \in DOMAIN s.additional_memory
         THEN s.additional_memory[index]
         ELSE 0

\* Mutant: a cell beyond the dense memory is keyed by its offset from the end
\* of the dense memory.
IndexMut_offset_key(s, index, value) ==
    IF index < Len(s.memory)
    THEN [s EXCEPT !.memory[index + 1] = value]
    ELSE [s EXCEPT !.additional_memory =
              [k \in (DOMAIN @) \cup {index - Len(s.memory)} |->
                   IF k = index - Len(s.memory) THEN value ELSE @[k]]]

\* Mutant: a cell beyond the dense memory keeps the value it was inserted with,
\* as entry(index).or_insert(value) would.
IndexMut_or_insert(s, index, value) ==
    IF index < Len(s.memory)
    THEN [s EXCEPT !.memory[index + 1] = value]
    ELSE IF index \in DOMAIN s.additional_memory
         THEN s
         ELSE [s EXCEPT !.additional_memory =
                  [k \in (DOMAIN @) \cup {index} |-> IF k = index THEN value ELSE @[k]]]

\* Mutant: a store right behind the dense memory extends it.
IndexMut_growing(s, index, value) ==
    CASE index < Len(s.memory) -> [s EXCEPT !.memory[index + 1] = value]
      [] index = Len(s.memory) -> [s EXCEPT !.memory = Append(@, value)]
      [] OTHER -> [s EXCEPT !.additional_memory =
                      [k \in (DOMAIN @) \cup {index} |-> IF k = index THEN value ELSE @[k]]]

\* impl IndexMut<usize> for State, followed by the store: state[index] = value
IndexMut(s, index, value) ==
    IF index < Len(s.memory)
    THEN [s EXCEPT !.memory[index + 1] = value]
    ELSE [s EXCEPT !.additional_memory =
              [k \in (DOMAIN @) \cup {index} |-> IF k = index THEN value ELSE @[k]]]

\* State::len
StateLen(s) == Len(s.memory) + Cardinality(DOMAIN s.additional_memory)

\* The match on op in next_instruction: the variant built, or a panic.
Variant(op) ==
    CASE op = 1  -> "Add"
      [] op = 2  -> "Multiply"
      [] op = 3  -> "Input"
      [] op = 4  -> "Output"
      [] op = 5  -> "JumpIfTrue"
      [] op = 6  -> "JumpIfFalse"
      [] op = 7  -> "LessThan"
      [] op = 8  -> "Equals"
      [] op = 9  -> "AdjustRelativeBaseOffset"
      [] op = 99 -> "Halt"
      [] OTHER   -> "panic"

\* The number of parameters the param! macro is invoked with for an operation.
ParamArity(op) ==
    CASE op \in {1, 2, 7, 8} -> 3
      [] op \in {5, 6}       -> 2
      [] op \in {3, 4, 9}    -> 1
      [] OTHER               -> 0

\* State::next_instruction past its guard: the instruction decoded from the
\* words at the instruction pointer, with its size, or a panic.
decode(s) ==
    LET opcode  == Index(s, s.instruction_pointer)
        op      == Rem(opcode, 100)
        variant == Variant(op)
    IN  IF variant = "panic"
        THEN [kind |-> "panic"]
        ELSE LET params == [p \in 1..ParamArity(op) |->
                              ParameterNew(opcode, p,
                                           Index(s, s.instruction_pointer + p))]
                 instruction == [variant |-> variant, params |-> params]
             IN  IF \E p \in DOMAIN params : params[p].mode = "panic"
                 THEN [kind |-> "panic"]
                 ELSE [kind        |-> "Some",
                       instruction |-> instruction,
                       size        |-> parameter_count(instruction) + 1]

\* Mutant: nothing behind the dense memory is decoded.
next_instruction_dense_only(s) ==
    IF s.instruction_pointer >= Len(s.memory) \/ s.halted
    THEN [kind |-> "None"]
    ELSE decode(s)

\* Mutant: the halted flag is not consulted.
next_instruction_ignoring_halted(s) ==
    IF s.instruction_pointer >= StateLen(s)
    THEN [kind |-> "None"]
    ELSE decode(s)

\* State::next_instruction: None, a panic, or Some((instruction, size)).
next_instruction(s) ==
    IF s.instruction_pointer >= StateLen(s) \/ s.halted
    THEN [kind |-> "None"]
    ELSE decode(s)

-----------------------------------------------------------------------------
(***************************************************************************)
(* ipc.rs: a channel is its shared buffer (a VecDeque) and its notifier,   *)
(* a tokio mpsc queue of capacity 32 carrying one () per value.  Of the    *)
(* notifier the model keeps the number of queued notifications, the number *)
(* of live Sender handles and whether the Receiver is alive.               *)
(***************************************************************************)

\* The capacity of the notifier queue: mpsc::channel(32).
NotifierCapacity == 32

\* Channel::new(block_on_recv)
ChannelNew(block_on_recv) ==
    [buffer        |-> << >>,
     notifier      |-> 0,
     senders       |-> 1,
     receiver      |-> TRUE,
     block_on_recv |-> block_on_recv]

\* Mutant: the value is pushed at the front of the buffer.
push_front(ch, value) == [ch EXCEPT !.buffer = <<value>> \o @]

\* ChannelSender::send, first half: self.buffer.lock().unwrap().push_back(value)
push_back(ch, value) == [ch EXCEPT !.buffer = Append(@, value)]

\* Mutant: a send queues two notifications for its one value.
notifier_send_doubling(ch) ==
    CASE ~ch.receiver                   -> [result |-> "Err",     channel |-> ch]
      [] ch.notifier < NotifierCapacity -> [result |-> "Ok",
                                            channel |-> [ch EXCEPT !.notifier = @ + 2]]
      [] OTHER                          -> [result |-> "Pending", channel |-> ch]

\* ChannelSender::send, second half: self.notifier.send(()).await.  tokio's
\* Sender::send fails once the Receiver is gone, completes when the queue has
\* room and waits otherwise.
notifier_send(ch) ==
    CASE ~ch.receiver                   -> [result |-> "Err",     channel |-> ch]
      [] ch.notifier < NotifierCapacity -> [result |-> "Ok",
                                            channel |-> [ch EXCEPT !.notifier = @ + 1]]
      [] OTHER                          -> [result |-> "Pending", channel |-> ch]

\* Mutant: the newest value is taken instead of the oldest.
pop_back(ch) ==
    IF ch.buffer = << >>
    THEN [result |-> "panic", value |-> None, channel |-> ch]
    ELSE [result  |-> "Some",
          value   |-> Some(ch.buffer[Len(ch.buffer)]),
          channel |-> [ch EXCEPT !.buffer = SubSeq(@, 1, Len(@) - 1),
                                 !.notifier = @ - 1]]

\* ChannelReceiver::recv, after a notification was taken: the front of the
\* buffer is read (front().unwrap() panics on an empty buffer) and popped.
pop_front(ch) ==
    IF ch.buffer = << >>
    THEN [result |-> "panic", value |-> None, channel |-> ch]
    ELSE [result  |-> "Some",
          value   |-> Some(Head(ch.buffer)),
          channel |-> [ch EXCEPT !.buffer = Tail(@), !.notifier = @ - 1]]

\* Mutant: a blocking recv waits on although every Sender is dropped.
recv_never_closed(ch) ==
    CASE ch.notifier > 0     -> pop_front(ch)
      [] ~ch.block_on_recv   -> [result |-> "None",    value |-> None, channel |-> ch]
      [] OTHER               -> [result |-> "Pending", value |-> None, channel |-> ch]

\* Mutant: the receiver's policy is ignored, every recv is a blocking one.
recv_always_blocking(ch) ==
    CASE ch.notifier > 0     -> pop_front(ch)
      [] ch.senders = 0      -> [result |-> "None",    value |-> None, channel |-> ch]
      [] OTHER               -> [result |-> "Pending", value |-> None, channel |-> ch]

\* ChannelReceiver::recv.  Blocking: notifier.recv().await yields a queued
\* notification, None once the queue is empty and every Sender is dropped, and
\* waits otherwise.  Polling: notifier.try_recv() yields a queued notification
\* or an error.
recv(ch) ==
    CASE ch.notifier > 0     -> pop_front(ch)
      [] ~ch.block_on_recv   -> [result |-> "None",    value |-> None, channel |-> ch]
      [] ch.senders = 0      -> [result |-> "None",    value |-> None, channel |-> ch]
      [] OTHER               -> [result |-> "Pending", value |-> None, channel |-> ch]

\* Mutant: the snapshot takes the values out of the buffer.
Channel_buffer_draining(ch) ==
    [value |-> ch.buffer, channel |-> [ch EXCEPT !.buffer = << >>]]

\* Channel::buffer(&self): a copy of the buffer, front first, made under the
\* lock; value is what is returned, channel is the channel as the call leaves
\* it.
Channel_buffer(ch) == [value |-> ch.buffer, channel |-> ch]

-----------------------------------------------------------------------------
(***************************************************************************)
(* process.rs: Process                                                     *)
(***************************************************************************)

\* Mutant: a Relative write operand is taken as an absolute address.
EvalWrite_ignoring_base(s, dest) == AsUsize(dest.value)

\* eval! { write dest }: the address a write operand designates.  An Immediate
\* write operand panics; callers test IsImmediate first.
EvalWrite(s, dest) ==
    IF dest.mode = "Position"
    THEN dest.value
    ELSE AsUsize(s.relative_base + dest.value)

\* Mutant: a Relative read operand is taken as a Position one.
EvalRead_ignoring_base(s, param) ==
    CASE param.mode = "Position"  -> Index(s, param.value)
      [] param.mode = "Relative"  -> Index(s, AsUsize(param.value))
      [] param.mode = "Immediate" -> param.value

\* eval! { param }: the value of a read operand.
EvalRead(s, param) ==
    CASE param.mode = "Position"  -> Index(s, param.value)
      [] param.mode = "Relative"  -> Index(s, AsUsize(s.relative_base + param.value))
      [] param.mode = "Immediate" -> param.value

IsImmediate(param) == param.mode = "Immediate"

\* Mutant: Equals stores 1 also when the left operand is the smaller one.
Compute_less_or_equal(variant, left, right) ==
    CASE variant = "Add"      -> left + right
      [] variant = "Multiply" -> left * right
      [] variant = "LessThan" -> IF left < right THEN 1 ELSE 0
      [] variant = "Equals"   -> IF left <= right THEN 1 ELSE 0

\* The value Add, Multiply, LessThan and Equals store.
Compute(variant, left, right) ==
    CASE variant = "Add"      -> left + right
      [] variant = "Multiply" -> left * right
      [] variant = "LessThan" -> IF left < right THEN 1 ELSE 0
      [] variant = "Equals"   -> IF left = right THEN 1 ELSE 0

\* What one call of evaluate_instruction yields, up to its first await that
\* cannot complete at once: the new state and channels and
\*   "Ok(true)" / "Ok(false)"   the value returned,
\*   "panic"                    a panic (nothing was changed before it),
\*   "await recv"               suspended in Input's recv (nothing was changed),
\*   "await send"               suspended in Output's notifier.send (last_output
\*                              is set and the value is in the buffer).
Outcome(result, s, rx, out, received) ==
    [result |-> result, state |-> s, rx |-> rx, out |-> out, received |-> received,
     evaluated |-> result]

\* Mutant: the destination cell is taken (index_mut) before recv is awaited, so
\* a cell beyond the dense memory is inserted although no value arrives.
evaluate_input_store_first(s, p, rx, out) ==
    IF IsImmediate(p[1])
    THEN Outcome("panic", s, rx, out, None)
    ELSE LET dest    == EvalWrite(s, p[1])
             touched == IndexMut(s, dest, Index(s, dest))
             r       == recv(rx)
         IN  CASE r.result = "Some" ->
                    LET stored == IndexMut(s, dest, r.value[1])
                    IN  Outcome("Ok(true)",
                                [stored EXCEPT !.last_input = Some(Index(stored, dest))],
                                r.channel, out, r.value)
               [] r.result = "None"    -> Outcome("Ok(false)", touched, rx, out, None)
               [] r.result = "Pending" -> Outcome("await recv", s, rx, out, None)
               [] r.result = "panic"   -> Outcome("panic", s, rx, out, None)

\* Mutant: the destination operand is looked at only after recv has returned.
evaluate_input_checking_late(s, p, rx, out) ==
    LET r == recv(rx)
    IN  CASE r.result = "Some" ->
               IF IsImmediate(p[1])
               THEN Outcome("panic", s, r.channel, out, r.value)
               ELSE LET stored == IndexMut(s, EvalWrite(s, p[1]), r.value[1])
                    IN  Outcome("Ok(true)",
                                [stored EXCEPT !.last_input = r.value],
                                r.channel, out, r.value)
          [] r.result = "None"    -> Outcome("Ok(false)", s, rx, out, None)
          [] r.result = "Pending" -> Outcome("await recv", s, rx, out, None)
          [] r.result = "panic"   -> Outcome("panic", s, rx, out, None)

\* The Input arm: eval! { write dest }, then recv, then the store.
evaluate_input(s, p, rx, out) ==
    IF IsImmediate(p[1])
    THEN Outcome("panic", s, rx, out, None)
    ELSE LET dest == EvalWrite(s, p[1])
             r    == recv(rx)
         IN  CASE r.result = "Some" ->
                    LET stored == IndexMut(s, dest, r.value[1])
                    IN  Outcome("Ok(true)",
                                [stored EXCEPT !.last_input = Some(Index(stored, dest))],
                                r.channel, out, r.value)
               [] r.result = "None"    -> Outcome("Ok(false)", s, rx, out, None)
               [] r.result = "Pending" -> Outcome("await recv", s, rx, out, None)
               [] r.result = "panic"   -> Outcome("panic", s, rx, out, None)

\* Mutant: a failed send is promoted to a terminal state.
evaluate_output_halting(s, p, rx, out) ==
    LET value  == EvalRead(s, p[1])
        s1     == [s EXCEPT !.last_output = Some(value)]
        pushed == push_back(out, value)
        n      == notifier_send(pushed)
    IN  CASE n.result = "Ok"      -> Outcome("Ok(true)",   s1, rx, n.channel, None)
          [] n.result = "Err"     -> Outcome("Ok(false)",  [s1 EXCEPT !.halted = TRUE],
                                             rx, n.channel, None)
          [] n.result = "Pending" -> Outcome("await send", s1, rx, n.channel, None)

\* Mutant: a value equal to last_output is not sent again.
evaluate_output_deduplicating(s, p, rx, out) ==
    LET value  == EvalRead(s, p[1])
        s1     == [s EXCEPT !.last_output = Some(value)]
        pushed == push_back(out, value)
        n      == notifier_send(pushed)
    IN  CASE s.last_output = Some(value) -> Outcome("Ok(true)", s1, rx, out, None)
          [] n.result = "Ok"      -> Outcome("Ok(true)",   s1, rx, n.channel, None)
          [] n.result = "Err"     -> Outcome("Ok(false)",  s1, rx, n.channel, None)
          [] n.result = "Pending" -> Outcome("await send", s1, rx, n.channel, None)

\* The Output arm: eval! { value }, last_output, then send.
evaluate_output(s, p, rx, out) ==
    LET value  == EvalRead(s, p[1])
        s1     == [s EXCEPT !.last_output = Some(value)]
        pushed == push_back(out, value)
        n      == notifier_send(pushed)
    IN  CASE n.result = "Ok"      -> Outcome("Ok(true)",   s1, rx, n.channel, None)
          [] n.result = "Err"     -> Outcome("Ok(false)",  s1, rx, n.channel, None)
          [] n.result = "Pending" -> Outcome("await send", s1, rx, n.channel, None)

\* Mutant: the destination cell is cleared before the operands are read.
evaluate_arithmetic_clearing(s, variant, p, rx, out) ==
    IF IsImmediate(p[3])
    THEN Outcome("panic", s, rx, out, None)
    ELSE LET dest    == EvalWrite(s, p[3])
             cleared == IndexMut(s, dest, 0)
             left    == EvalRead(cleared, p[1])
             right   == EvalRead(cleared, p[2])
         IN  Outcome("Ok(true)", IndexMut(s, dest, Compute(variant, left, right)),
                     rx, out, None)

\* The Add, Multiply, LessThan and Equals arms: eval! { write dest, left, right },
\* then the store.
evaluate_arithmetic(s, variant, p, rx, out) ==
    IF IsImmediate(p[3])
    THEN Outcome("panic", s, rx, out, None)
    ELSE LET dest  == EvalWrite(s, p[3])
             left  == EvalRead(s, p[1])
             right == EvalRead(s, p[2])
         IN  Outcome("Ok(true)", IndexMut(s, dest, Compute(variant, left, right)),
                     rx, out, None)

\* Mutant: a jump that is taken returns Ok(true), so step adds the size of the
\* instruction to the target.
evaluate_jump_advancing(s, variant, p, rx, out) ==
    LET value == EvalRead(s, p[1])
        dest  == EvalRead(s, p[2])
    IN  IF (variant = "JumpIfTrue") = (value # 0)
        THEN Outcome("Ok(true)", [s EXCEPT !.instruction_pointer = AsUsize(dest)],
                     rx, out, None)
        ELSE Outcome("Ok(true)", s, rx, out, None)

\* The JumpIfTrue and JumpIfFalse arms.
evaluate_jump(s, variant, p, rx, out) ==
    LET value == EvalRead(s, p[1])
        dest  == EvalRead(s, p[2])
    IN  IF (variant = "JumpIfTrue") = (value # 0)
        THEN Outcome("Ok(false)", [s EXCEPT !.instruction_pointer = AsUsize(dest)],
                     rx, out, None)
        ELSE Outcome("Ok(true)", s, rx, out, None)

\* Mutant: the relative base is set to the operand instead of moved by it.
evaluate_adjust_assigning(s, p, rx, out) ==
    Outcome("Ok(true)", [s EXCEPT !.relative_base = EvalRead(s, p[1])],
            rx, out, None)

\* The AdjustRelativeBaseOffset arm.
evaluate_adjust(s, p, rx, out) ==
    Outcome("Ok(true)", [s EXCEPT !.relative_base = @ + EvalRead(s, p[1])],
            rx, out, None)

\* Mutant: Halt returns Ok(false), as the jumps do.
evaluate_halt_no_advance(s, rx, out) ==
    Outcome("Ok(false)", [s EXCEPT !.halted = TRUE], rx, out, None)

\* The Halt arm: halted is set and the match falls through to Ok(true).
evaluate_halt(s, rx, out) ==
    Outcome("Ok(true)", [s EXCEPT !.halted = TRUE], rx, out, None)

\* Process::set_memory(index, value)
set_memory(s, index, value) == IndexMut(s, index, value)

\* Process::evaluate_instruction
evaluate_instruction(s, instruction, rx, out) ==
    LET variant == instruction.variant
        p       == instruction.params
    IN  IF s.halted THEN Outcome("Ok(false)", s, rx, out, None)
        ELSE CASE variant \in {"Add", "Multiply", "LessThan", "Equals"} ->
                    evaluate_arithmetic(s, variant, p, rx, out)
               [] variant = "Input"  -> evaluate_input(s, p, rx, out)
               [] variant = "Output" -> evaluate_output(s, p, rx, out)
               [] variant \in {"JumpIfTrue", "JumpIfFalse"} ->
                    evaluate_jump(s, variant, p, rx, out)
               [] variant = "AdjustRelativeBaseOffset" -> evaluate_adjust(s, p, rx, out)
               [] variant = "Halt" -> evaluate_halt(s, rx, out)

\* Mutant: the instruction pointer is advanced whatever was returned.
advance_always(s, result, instruction_size) ==
    [s EXCEPT !.instruction_pointer = @ + instruction_size]

\* The match in Process::step on what evaluate_instruction returned.
advance(s, result, instruction_size) ==
    IF result = "Ok(true)"
    THEN [s EXCEPT !.instruction_pointer = @ + instruction_size]
    ELSE s

\* Process::step, up to its first await that cannot complete at once.
step(s, rx, out) ==
    LET next == next_instruction(s)
    IN  CASE next.kind = "None"  ->
               [Outcome("Ok(())", s, rx, out, None) EXCEPT !.evaluated = "none"]
          [] next.kind = "panic" ->
               [Outcome("panic", s, rx, out, None) EXCEPT !.evaluated = "none"]
          [] next.kind = "Some"  ->
               LET e == evaluate_instruction(s, next.instruction, rx, out)
               IN  [e EXCEPT !.state  = advance(e.state, e.result, next.size),
                             !.result = IF @ \in {"Ok(true)", "Ok(false)"}
                                        THEN "Ok(())" ELSE @]

-----------------------------------------------------------------------------
(***************************************************************************)
(* breakpoint.rs and the mnemonics of instruction.rs                       *)
(***************************************************************************)

\* Instruction::NAMES
NAMES == <<"ADD", "MUL", "INP", "OUT", "JIT", "JIF", "LST", "EQL", "ARO", "HLT">>

\* impl From<&str> for Instruction: the instruction of a mnemonic, every
\* operand the placeholder Position(0).
InstructionFrom(s) ==
    LET variant ==
            CASE s = "ADD" -> "Add"
              [] s = "MUL" -> "Multiply"
              [] s = "INP" -> "Input"
              [] s = "OUT" -> "Output"
              [] s = "JIT" -> "JumpIfTrue"
              [] s = "JIF" -> "JumpIfFalse"
              [] s = "LST" -> "LessThan"
              [] s = "EQL" -> "Equals"
              [] s = "ARO" -> "AdjustRelativeBaseOffset"
              [] s = "HLT" -> "Halt"
        count ==
            CASE s \in {"ADD", "MUL", "LST", "EQL"} -> 3
              [] s \in {"JIT", "JIF"}               -> 2
              [] s \in {"INP", "OUT", "ARO"}        -> 1
              [] s = "HLT"                          -> 0
    IN  [variant |-> variant, params |-> [p \in 1..count |-> Position(0)]]

\* Breakpoint::MemoryLocation(location) and Breakpoint::Instruction(i)
MemoryLocation(location) == [kind |-> "MemoryLocation", location |-> location]
InstructionBreakpoint(i) == [kind |-> "Instruction", instruction |-> i]

\* std::mem::discriminant of an Instruction: its variant.
discriminant(instruction) == instruction.variant

\* Mutant: the range of a MemoryLocation breakpoint includes its end.
Breakpoint_evaluate_inclusive(bp, s, instruction) ==
    IF bp.kind = "Instruction"
    THEN discriminant(bp.instruction) = discriminant(instruction)
    ELSE LET size  == parameter_count(instruction) + 1
             start == s.instruction_pointer
         IN  start <= bp.location /\ bp.location <= start + size

\* Mutant: an Instruction breakpoint compares the whole instruction.
Breakpoint_evaluate_structural(bp, s, instruction) ==
    IF bp.kind = "Instruction"
    THEN bp.instruction = instruction
    ELSE LET size  == parameter_count(instruction) + 1
             start == s.instruction_pointer
         IN  start <= bp.location /\ bp.location < start + size

\* Breakpoint::evaluate(&self, state, instruction)
Breakpoint_evaluate(bp, s, instruction) ==
    IF bp.kind = "Instruction"
    THEN discriminant(bp.instruction) = discriminant(instruction)
    ELSE LET size  == parameter_count(instruction) + 1
             start == s.instruction_pointer
         IN  start <= bp.location /\ bp.location < start + size

\* Breakpoints::evaluate(&self, state, instruction): any of the collection.
Breakpoints_evaluate(breakpoints, s, instruction) ==
    \E i \in DOMAIN breakpoints : Breakpoint_evaluate(breakpoints[i], s, instruction)

-----------------------------------------------------------------------------
(***************************************************************************)
(* The state machine.  One process with its input channel "in" (of which   *)
(* it holds the receiver) and its output channel "out" (of which it holds  *)
(* a sender); the other endpoints are held by the process's driver: the    *)
(* senders SenderIds of "in" (the original and a clone) and the receiver   *)
(* of "out".                                                               *)
(***************************************************************************)

SenderIds == {1, 2}

Idle == [at |-> "idle", size |-> 0]

NoLog == [appended |-> << >>, received |-> << >>, sent |-> 0]

\* A call of step that decoded the instruction it returned from.
Decoded(l) == l.op = "step" /\ l.next.kind = "Some" /\ l.result = "Ok(())"

\* A call of step that executed Input and got no value from recv.
InputFoundNone(l) ==
    /\ Decoded(l)
    /\ l.next.instruction.variant = "Input"
    /\ l.received = None

\* The history record of a call of step: whether the call before it was an
\* Input that got no value (and which instruction that was), the state and channels it started
\* from, the instruction decoded, what evaluate_instruction and step returned,
\* the value received and the channels as the call left them.
Called(pre, rx_pre, out_pre, r) ==
    [op        |-> "step",
     retry     |-> [is |-> InputFoundNone(last), next |-> last.next],
     pre       |-> pre,
     next      |-> next_instruction(pre),
     evaluated |-> r.evaluated,
     result    |-> r.result,
     received  |-> r.received,
     rx_pre    |-> rx_pre,
     rx_post   |-> r.rx,
     out_pre   |-> out_pre,
     out_post  |-> r.out]

NotCalled(s, rx, out) ==
    [op        |-> "init",
     retry     |-> [is |-> FALSE, next |-> [kind |-> "None"]],
     pre       |-> s,
     next      |-> [kind |-> "None"],
     evaluated |-> "none",
     result    |-> "none",
     received  |-> None,
     rx_pre    |-> rx,
     rx_post   |-> rx,
     out_pre   |-> out,
     out_post  |-> out]

\* The history record of a call of set_memory(index, value) on state s.
SetCalled(s, index, value) ==
    [op |-> "set_memory", index |-> index, value |-> value]
        @@ NotCalled(s, channels["in"], channels["out"])

\* The addresses the call recorded in l has stored to: the index given to
\* set_memory, the write operand of an Add, Multiply, LessThan or Equals, the
\* write operand of an Input that received a value.
Written(l) ==
    CASE l.op = "set_memory" -> {l.index}
      [] Decoded(l) /\ l.next.instruction.variant
                          \in {"Add", "Multiply", "LessThan", "Equals"} ->
             {EvalWrite(l.pre, l.next.instruction.params[3])}
      [] Decoded(l) /\ l.next.instruction.variant = "Input" /\ l.received # None ->
             {EvalWrite(l.pre, l.next.instruction.params[1])}
      [] OTHER -> {}

\* The history of the memory after the call recorded in l.
Remembered(l) == [mem EXCEPT !.written = @ \cup Written(l)]

\* Where step is after an outcome.
After(r, size) ==
    CASE r.result = "panic"      -> [at |-> "panicked", size |-> 0]
      [] r.result = "await recv" -> [at |-> "recv", size |-> size]
      [] r.result = "await send" -> [at |-> "send", size |-> size]
      [] OTHER                   -> Idle

\* The history of both channels after an outcome of step.
Logged(r) ==
    [log EXCEPT
       !["in"].received  = IF r.received = None THEN @ ELSE Append(@, r.received[1]),
       !["out"].appended = IF Len(r.out.buffer) > Len(channels["out"].buffer)
                           THEN Append(@, r.out.buffer[Len(r.out.buffer)]) ELSE @,
       !["out"].sent     = IF r.out.notifier > channels["out"].notifier
                           THEN @ + 1 ELSE @]

\* No call of run_until yet on the process whose state is s.
NotRunning(s) ==
    [at          |-> "none",
     breakpoints |-> << >>,
     reason      |-> "none",
     iterations  |-> 0,
     after       |-> 0,
     pre         |-> s,
     appended    |-> 0,
     received    |-> 0]

\* What a call of states() returned for the process, with the process as it
\* was at that moment: its actual state, the state its last step started
\* from, where step was and where the driver was.
Snapshot(read) ==
    [read   |-> read,
     state  |-> app.shared,
     actual |-> state,
     before |-> last.pre,
     during |-> pc.at,
     driver |-> app.driver]

\* App::new for one process: the shared handle holds process.state(), the
\* control queue is empty, the driver task waits for a notification.
AppNew(s) ==
    [driver    |-> "waiting",
     queue     |-> 0,
     shared    |-> s,
     caller    |-> "idle",
     result    |-> "none",
     requested |-> 0,
     sent      |-> 0,
     taken     |-> 0,
     stepped   |-> 0,
     buffers   |-> [count |-> 0, value |-> << >>],
     twin      |-> None,
     run       |-> "none",
     seen      |-> [read |-> FALSE, state |-> s, actual |-> s, before |-> s,
                    during |-> "idle", driver |-> "waiting"]]

\* One call of process.step() from the present state, up to its return, its
\* panic or its first await that cannot complete at once.
Stepped ==
    \E r \in {step(state, channels["in"], channels["out"])} :
      \E next \in {next_instruction(state)} :
        \E called \in {Called(state, channels["in"], channels["out"], r)} :
           /\ state' = r.state
           /\ channels' = [channels EXCEPT !["in"] = r.rx, !["out"] = r.out]
           /\ pc' = After(r, IF next.kind = "Some" THEN next.size ELSE 0)
           /\ log' = Logged(r)
           /\ last' = called
           /\ mem' = Remembered(called)

\* One call of process.step(), counted.
Stepping ==
    /\ Stepped
    /\ calls' = [calls EXCEPT !.step = @ + 1]
    /\ UNCHANGED <<tx, rcv, ring>>

\* The driver calls process.step(); the steps it makes since run_until
\* returned are counted.
Step(bound) ==
    /\ pc.at = "idle"
    /\ until.at # "loop"
    /\ calls.step < bound
    /\ Stepping
    /\ until' = [until EXCEPT !.after = IF until.at = "returned" THEN @ + 1 ELSE @]
    /\ UNCHANGED <<app, ring>>

\* App::step(index), its first statement: nothing is sent to a process whose
\* shared state is halted.
AppStepCheck(bound) ==
    /\ app.caller = "idle"
    /\ app.requested < bound
    /\ app' = [app EXCEPT !.requested = @ + 1,
                          !.caller = IF app.shared.halted THEN "idle" ELSE "send",
                          !.result = IF app.shared.halted THEN "Ok" ELSE "none"]
    /\ UNCHANGED <<state, channels, pc, tx, log, last, calls, rcv, mem, until, ring>>

\* App::step(index), notifiers[index].send(()): the notification is queued,
\* or the driver task has ended and dropped the control receiver.
AppStepSend ==
    /\ app.caller = "send"
    /\ \/ /\ app.driver \in {"exited", "panicked"}
          /\ app' = [app EXCEPT !.caller = "idle", !.result = "Err"]
       \/ /\ app.driver \notin {"exited", "panicked"}
          /\ app.queue < NotifierCapacity
          /\ app' = [app EXCEPT !.caller = "idle", !.result = "Ok",
                                !.queue = @ + 1, !.sent = @ + 1]
    /\ UNCHANGED <<state, channels, pc, tx, log, last, calls, rcv, mem, until, ring>>

\* Mutant: the driver does not look at halted; it steps on every notification.
DriverTake_ignoring_halted ==
    /\ app.driver = "waiting"
    /\ app.queue > 0
    /\ app' = [app EXCEPT !.queue = @ - 1, !.taken = @ + 1, !.driver = "step"]
    /\ UNCHANGED <<state, channels, pc, tx, log, last, calls, rcv, mem, until, ring>>

\* The driver task takes a notification: it breaks out of its loop if the
\* process is halted, dropping the process with its receiver of "in" and its
\* sender of "out"; otherwise it is about to call step.
DriverTake ==
    /\ app.driver = "waiting"
    /\ app.queue > 0
    /\ app' = [app EXCEPT !.queue = @ - 1, !.taken = @ + 1,
                          !.driver = IF state.halted THEN "exited" ELSE "step"]
    /\ channels' = IF state.halted
                   THEN [channels EXCEPT !["in"].receiver = FALSE,
                                         !["in"].notifier = 0,
                                         !["out"].senders = @ - 1]
                   ELSE channels
    /\ UNCHANGED <<state, pc, tx, log, last, calls, rcv, mem, until, ring>>

\* The driver task calls process.step(): step returns, panics (and the task
\* with it) or is suspended in the send of an Output.
DriverStep(bound) ==
    /\ app.driver = "step"
    /\ pc.at = "idle"
    /\ calls.step < bound
    /\ Stepping
    /\ app' = [app EXCEPT !.stepped = @ + 1,
                          !.driver = CASE pc'.at = "idle"     -> "publish"
                                       [] pc'.at = "panicked" -> "panicked"
                                       [] OTHER               -> "stepping"]
    /\ UNCHANGED <<until, ring>>

\* Mutant: the driver goes back to waiting without storing the state.
DriverPublish_keeping ==
    /\ app.driver \in {"publish", "stepping"}
    /\ pc.at = "idle"
    /\ app' = [app EXCEPT !.driver = "waiting"]
    /\ UNCHANGED <<state, channels, pc, tx, log, last, calls, rcv, mem, until, ring>>

\* Mutant: the state is stored also while step is suspended.
DriverPublish_early ==
    /\ app.driver \in {"publish", "stepping"}
    /\ app' = [app EXCEPT !.shared = state,
                          !.driver = IF pc.at = "idle" THEN "waiting" ELSE @]
    /\ UNCHANGED <<state, channels, pc, tx, log, last, calls, rcv, mem, until, ring>>

\* step has returned: *state.lock().unwrap() = process.state(), and the
\* driver waits for the next notification.
DriverPublish ==
    /\ app.driver \in {"publish", "stepping"}
    /\ pc.at = "idle"
    /\ app' = [app EXCEPT !.shared = state, !.driver = "waiting"]
    /\ UNCHANGED <<state, channels, pc, tx, log, last, calls, rcv, mem, until, ring>>

\* App::states(): a clone of the shared state, taken under its lock.
States ==
    /\ app' = [app EXCEPT !.seen = Snapshot(TRUE)]
    /\ UNCHANGED <<state, channels, pc, tx, log, last, calls, rcv, mem, until, ring>>

\* The process is stepped, and with it a twin that starts from the same state
\* but for last_input and last_output and sees the same channel contents.
TwinStep(bound, last_input, last_output) ==
    /\ pc.at = "idle"
    /\ until.at # "loop"
    /\ calls.step < bound
    /\ LET twin == [state EXCEPT !.last_input = last_input,
                                 !.last_output = last_output]
       IN  app' = [app EXCEPT !.twin =
                      Some([pre  |-> twin,
                            post |-> step(twin, channels["in"], channels["out"])])]
    /\ Stepping
    /\ UNCHANGED <<until, ring>>

\* App::buffers() for channel c: channel.buffer().
Buffers(c) ==
    /\ app.buffers.count < MaxSnapshots
    /\ LET b == Channel_buffer(channels[c])
       IN  /\ app' = [app EXCEPT !.buffers = [count |-> @.count + 1, value |-> b.value]]
           /\ channels' = [channels EXCEPT ![c] = b.channel]
    /\ UNCHANGED <<state, pc, tx, log, last, calls, rcv, mem, until, ring>>

\* One turn of the loop of process.run(): while the process is not halted,
\* step.
Run(bound) ==
    /\ pc.at = "idle"
    /\ ~state.halted
    /\ calls.step < bound
    /\ Stepping
    /\ UNCHANGED <<until, app, ring>>

\* The caller calls process.run().
RunCall ==
    /\ app.run = "none"
    /\ pc.at = "idle"
    /\ app' = [app EXCEPT !.run = "loop"]
    /\ UNCHANGED <<state, channels, pc, tx, log, last, calls, rcv, mem, until, ring>>

\* One turn of the loop of process.run(), inside a call: run returns Ok(())
\* once the process is halted, otherwise it steps.  The steps are counted up
\* to bound.
RunTurn(bound) ==
    /\ app.run = "loop"
    /\ pc.at = "idle"
    /\ IF state.halted
       THEN /\ app' = [app EXCEPT !.run = "returned"]
            /\ UNCHANGED <<state, channels, pc, tx, log, last, calls, rcv, mem, until, ring>>
       ELSE /\ Stepped
            /\ calls' = [calls EXCEPT !.step = IF @ < bound THEN @ + 1 ELSE @]
            /\ UNCHANGED <<tx, rcv, until, app, ring>>

\* The last step of the present call of run_until ended in a channel
\* operation that failed: an Input whose recv gave no value, an Output whose
\* send was refused.
ChannelFailed ==
    /\ until.iterations > 0
    /\ Decoded(last)
    /\ last.next.instruction.variant \in {"Input", "Output"}
    /\ last.evaluated = "Ok(false)"

\* Mutant: the predicate is consulted only after the first step.
run_until_step_first(s, breakpoints, failed, iterations) ==
    LET next == next_instruction(s)
    IN  CASE iterations = 0 -> "step"
          [] failed   -> "channel"
          [] s.halted -> "halted"
          [] next.kind = "Some"
                /\ Breakpoints_evaluate(breakpoints, s, next.instruction) -> "breakpoint"
          [] OTHER    -> "step"

\* Mutant: run_until gives up after its first step.
run_until_single_step(s, breakpoints, failed, iterations) ==
    LET next == next_instruction(s)
    IN  CASE failed   -> "channel"
          [] s.halted -> "halted"
          [] next.kind = "Some"
                /\ Breakpoints_evaluate(breakpoints, s, next.instruction) -> "breakpoint"
          [] iterations > 0 -> "breakpoint"
          [] OTHER    -> "step"

\* Process::run_until(pred), the head of its loop: the call completes when a
\* channel operation of its last step failed, when the process has halted and
\* when the predicate is true of the state and the next instruction;
\* otherwise it steps and loops.
run_until(s, breakpoints, failed, iterations) ==
    LET next == next_instruction(s)
    IN  CASE failed   -> "channel"
          [] s.halted -> "halted"
          [] next.kind = "Some"
                /\ Breakpoints_evaluate(breakpoints, s, next.instruction) -> "breakpoint"
          [] OTHER    -> "step"

\* The driver calls process.run_until(|state, instruction|
\* breakpoints.evaluate(state, instruction)).
RunUntilCall(breakpoints) ==
    /\ pc.at = "idle"
    /\ until.at # "loop"
    /\ calls.until < MaxRuns
    /\ until' = [at          |-> "loop",
                 breakpoints |-> breakpoints,
                 reason      |-> "none",
                 iterations  |-> 0,
                 after       |-> 0,
                 pre         |-> state,
                 appended    |-> Len(log["out"].appended),
                 received    |-> Len(log["in"].received)]
    /\ calls' = [calls EXCEPT !.until = @ + 1]
    /\ UNCHANGED <<state, channels, pc, tx, log, last, rcv, mem, app, ring>>

\* One turn of the loop of run_until: it returns, or it makes one step.
RunUntilLoop(bound) ==
    /\ pc.at = "idle"
    /\ until.at = "loop"
    /\ LET turn == run_until(state, until.breakpoints, ChannelFailed, until.iterations)
       IN  IF turn = "step"
           THEN /\ calls.step < bound
                /\ Stepping
                /\ until' = [until EXCEPT !.iterations = @ + 1]
                /\ UNCHANGED <<app, ring>>
           ELSE /\ until' = [until EXCEPT !.at = "returned", !.reason = turn]
                /\ UNCHANGED <<state, channels, pc, tx, log, last, calls, rcv, mem, app, ring>>

\* step, suspended in Input's blocking recv, is woken: a notification has
\* arrived or the last sender is gone.  Nothing was changed before the await,
\* so the wake-up is the evaluation from the same state.
ResumeRecv ==
    /\ pc.at = "recv"
    /\ recv(channels["in"]).result # "Pending"
    /\ LET r == step(state, channels["in"], channels["out"])
       IN  /\ state' = r.state
           /\ channels' = [channels EXCEPT !["in"] = r.rx, !["out"] = r.out]
           /\ pc' = After(r, pc.size)
           /\ log' = Logged(r)
           /\ last' = Called(state, channels["in"], channels["out"], r)
           /\ mem' = Remembered(Called(state, channels["in"], channels["out"], r))
    /\ UNCHANGED <<tx, calls, rcv, until, app, ring>>

\* step, suspended in Output's notifier.send, is woken: the queue has room
\* (the send succeeds and step advances) or the receiver is gone (it fails).
ResumeSend ==
    /\ pc.at = "send"
    /\ LET n == notifier_send(channels["out"])
           evaluated == IF n.result = "Ok" THEN "Ok(true)" ELSE "Ok(false)"
       IN  /\ n.result # "Pending"
           /\ state' = advance(state, evaluated, pc.size)
           /\ channels' = [channels EXCEPT !["out"] = n.channel]
           /\ log' = [log EXCEPT !["out"].sent = IF n.result = "Ok" THEN @ + 1 ELSE @]
           /\ last' = [last EXCEPT !.evaluated = evaluated, !.result = "Ok(())"]
    /\ pc' = Idle
    /\ UNCHANGED <<tx, calls, rcv, mem, until, app, ring>>

\* The driver calls process.set_memory(index, value) between two steps.
SetMemory(index, value) ==
    /\ pc.at = "idle"
    /\ calls.set < MaxSets
    /\ state' = set_memory(state, index, value)
    /\ last' = SetCalled(state, index, value)
    /\ mem' = Remembered(SetCalled(state, index, value))
    /\ calls' = [calls EXCEPT !.set = @ + 1]
    /\ UNCHANGED <<channels, pc, tx, log, rcv, until, app, ring>>

\* The history record of a call breakpoint.evaluate(state, instruction) with
\* the next instruction of the state.
EvaluateCalled(bp) ==
    [op          |-> "Breakpoint::evaluate",
     breakpoint  |-> bp,
     instruction |-> next_instruction(state).instruction,
     returned    |-> Breakpoint_evaluate(bp, state, next_instruction(state).instruction)]
        @@ NotCalled(state, channels["in"], channels["out"])

\* The driver evaluates a breakpoint on the state of the process and its next
\* instruction, between two steps.
EvaluateCall(bp) ==
    /\ pc.at = "idle"
    /\ next_instruction(state).kind = "Some"
    /\ last' = EvaluateCalled(bp)
    /\ UNCHANGED <<state, channels, pc, tx, log, calls, rcv, mem, until, app, ring>>

\* A sender of "in" calls send(value): the value is pushed, the notification
\* is still to be sent.
SendPush(id, value) ==
    /\ tx[id] = "idle"
    /\ calls.send < MaxSends
    /\ channels' = [channels EXCEPT !["in"] = push_back(@, value)]
    /\ tx' = [tx EXCEPT ![id] = "notify"]
    /\ log' = [log EXCEPT !["in"].appended = Append(@, value)]
    /\ calls' = [calls EXCEPT !.send = @ + 1]
    /\ UNCHANGED <<state, pc, last, rcv, mem, until, app, ring>>

\* The send of a sender of "in" completes: the notification is queued and send
\* returns Ok, or the receiver is gone and send returns an error.
SendNotify(id) ==
    /\ tx[id] = "notify"
    /\ LET n == notifier_send(channels["in"])
       IN  /\ n.result # "Pending"
           /\ channels' = [channels EXCEPT !["in"] = n.channel]
           /\ log' = [log EXCEPT !["in"].sent = IF n.result = "Ok" THEN @ + 1 ELSE @]
    /\ tx' = [tx EXCEPT ![id] = "idle"]
    /\ UNCHANGED <<state, pc, last, calls, rcv, mem, until, app, ring>>

\* sender.clone(): one more live sender of "in".
CloneSender(id) ==
    /\ tx[id] = "none"
    /\ \E other \in SenderIds : tx[other] \in {"idle", "notify"}
    /\ tx' = [tx EXCEPT ![id] = "idle"]
    /\ channels' = [channels EXCEPT !["in"].senders = @ + 1]
    /\ UNCHANGED <<state, pc, log, last, calls, rcv, mem, until, app, ring>>

\* A sender of "in" is dropped.
DropSender(id) ==
    /\ tx[id] = "idle"
    /\ tx' = [tx EXCEPT ![id] = "dropped"]
    /\ channels' = [channels EXCEPT !["in"].senders = @ - 1]
    /\ UNCHANGED <<state, pc, log, last, calls, rcv, mem, until, app, ring>>

\* What the holder of the receiver of channel c knows after its recv was
\* polled on channel ch with outcome r: suspended in notifier.recv().await, or
\* returned (result, value), with the channel as the poll found and left it
\* and the number of values returned since the last sender was dropped.
Received(c, ch, r, waited) ==
    [at     |-> CASE r.result = "Pending" -> "recv"
                  [] r.result = "panic"   -> "panicked"
                  [] OTHER                -> "idle",
     c      |-> c,
     result |-> r.result,
     value  |-> r.value,
     waited  |-> waited,
     drained |-> IF r.result = "Some" /\ ch.senders = 0
                 THEN rcv.drained + 1 ELSE rcv.drained,
     pre     |-> ch,
     post    |-> r.channel]

NotReceived(c, ch) ==
    [at |-> "idle", c |-> c, result |-> "none", value |-> None, waited |-> FALSE,
     drained |-> 0, pre |-> ch, post |-> ch]

\* The history of channel c after such a poll.
LoggedRecv(c, r) ==
    [log EXCEPT ![c].received = IF r.result = "Some" THEN Append(@, r.value[1]) ELSE @]

\* The holder of the receiver of channel c calls recv: it returns a value,
\* returns None or suspends.
Recv(c) ==
    /\ channels[c].receiver
    /\ rcv.at = "idle"
    /\ calls.recv < MaxRecvs
    /\ LET r == recv(channels[c])
       IN  /\ channels' = [channels EXCEPT ![c] = r.channel]
           /\ log' = LoggedRecv(c, r)
           /\ rcv' = Received(c, channels[c], r, FALSE)
    /\ calls' = [calls EXCEPT !.recv = @ + 1]
    /\ UNCHANGED <<state, pc, tx, last, mem, until, app, ring>>

\* The recv suspended on channel c is woken: a notification has arrived or the
\* last sender is gone.
RecvWake(c) ==
    /\ rcv.at = "recv" /\ rcv.c = c
    /\ LET r == recv(channels[c])
       IN  /\ r.result # "Pending"
           /\ channels' = [channels EXCEPT ![c] = r.channel]
           /\ log' = LoggedRecv(c, r)
           /\ rcv' = Received(c, channels[c], r, TRUE)
    /\ UNCHANGED <<state, pc, tx, last, calls, mem, until, app, ring>>

\* The receiver of channel c is dropped: tokio closes the notifier queue and
\* discards what is queued; the buffer stays, shared with the Channel handle.
\* A receiver a suspended recv borrows cannot be dropped.
DropReceiver(c) ==
    /\ channels[c].receiver
    /\ ~(rcv.at = "recv" /\ rcv.c = c)
    /\ channels' = [channels EXCEPT ![c].receiver = FALSE, ![c].notifier = 0]
    /\ UNCHANGED <<state, pc, tx, log, last, calls, rcv, mem, until, app, ring>>

-----------------------------------------------------------------------------
(***************************************************************************)
(* SpecStep: step applied to a process loaded with a five-word program, an *)
(* opcode word, three operand words and a Halt, the channels as left by    *)
(* the driver; nobody else acts.                                           *)
(***************************************************************************)

Modes == {0, 1, 2}

\* Opcode words: every operation with every legal mode digit at each of its
\* operand positions, and words that do not decode.
OpWords ==
       {op + 100 * m1 + 1000 * m2 + 10000 * m3 :
            op \in {1, 2, 7, 8}, m1 \in Modes, m2 \in Modes, m3 \in Modes}
  \cup {op + 100 * m1 + 1000 * m2 : op \in {5, 6}, m1 \in Modes, m2 \in Modes}
  \cup {op + 100 * m1 : op \in {3, 4, 9}, m1 \in Modes}
  \cup {99, 0, 10, 304, 3005, 407, 30001}

\* Operand words: a negative value, the address of the opcode word, an address
\* inside the program and one beyond it.
Operands == {-1, 0, 2, 5}

RelativeBases == {0, 3}

\* A channel holding the values of buffer, all notified.
ChannelHolding(buffer, senders, receiver, block_on_recv) ==
    [buffer        |-> buffer,
     notifier      |-> Len(buffer),
     senders       |-> senders,
     receiver      |-> receiver,
     block_on_recv |-> block_on_recv]

\* The input channel as the driver may leave it: empty or holding values,
\* polling or blocking, its senders alive or all dropped.
InputChannels ==
    {ChannelHolding(b, n, TRUE, blocking) :
         b \in {<< >>, <<7>>, <<7, 8>>}, n \in {0, 1}, blocking \in BOOLEAN}

\* The output channel: its receiver alive or dropped.
OutputChannels ==
    {ChannelHolding(<< >>, 1, alive, TRUE) : alive \in BOOLEAN}

Senders(n) == [id \in SenderIds |-> IF id = 1 /\ n > 0 THEN "idle"
                                    ELSE IF id = 1 THEN "dropped" ELSE "none"]

-----------------------------------------------------------------------------
(***************************************************************************)
(* app.rs: the ring App::new builds.  Five processes run the same program; *)
(* channel k is the input channel of process k, and process k sends into   *)
(* the channel after it, the last process into channel 0 through a clone   *)
(* of its first sender.  Every channel is polling.  Each process has its   *)
(* own control queue, driver task and shared State handle.                 *)
(*                                                                         *)
(* ring.log is history: per channel, every value ever appended to its      *)
(* buffer and who appended it (-1 is App::new, i is process i);            *)
(* ring.received the values each process took from its input channel and   *)
(* ring.advances the number of its steps that advanced or jumped.          *)
(***************************************************************************)

\* The processes of the ring: permutation = [0, 1, 2, 3, 4].
RingSize == 5

Procs == 0..(RingSize - 1)

\* Bound: the notifications App::step sends over the ring's life.
MaxRingRequests == 5

\* Mutant: the last process is not closed onto the first channel.
OutputChannel_unclosed(i) == IF i = 4 THEN 4 ELSE i + 1

\* The channel process i sends into: new_sender, or first.clone() for i == 4.
OutputChannel(i) == IF i = 4 THEN 0 ELSE i + 1

\* What App::new sends into channel k: the phase p + 5, and on the first
\* channel the signal 0 behind it.
Constructed(k) == IF k = 0 THEN <<k + 5, 0>> ELSE <<k + 5>>

\* The log of a buffer App::new filled with the values of buffer.
ByApp(buffer) == [e \in 1..Len(buffer) |-> [by |-> -1, value |-> buffer[e]]]

\* The values of a log, in order.
LogValues(l) == [e \in 1..Len(l) |-> l[e].value]

\* App::new(input): every process loaded with the program, waiting for its
\* first notification.
RingNew(program) ==
    [program  |-> program,
     states   |-> [i \in Procs |-> StateNew(program)],
     chans    |-> [k \in Procs |-> ChannelHolding(Constructed(k), 1, TRUE, FALSE)],
     driver   |-> [i \in Procs |-> "waiting"],
     size     |-> [i \in Procs |-> 0],
     queue    |-> [i \in Procs |-> 0],
     shared   |-> [i \in Procs |-> StateNew(program)],
     app      |-> "alive",
     requests |-> 0,
     log      |-> [k \in Procs |-> ByApp(Constructed(k))],
     received |-> [i \in Procs |-> << >>],
     advances |-> [i \in Procs |-> 0]]

\* App::step(i) of a live App: nothing for a process whose shared State is
\* halted, else one notification into the control queue of process i.
RingRequest(i) ==
    /\ ring.app = "alive"
    /\ ring.requests < MaxRingRequests
    /\ ~ring.shared[i].halted
    /\ ring.driver[i] \notin {"exited", "panicked"}
    /\ ring.queue[i] < NotifierCapacity
    /\ ring' = [ring EXCEPT !.queue[i] = @ + 1, !.requests = @ + 1]
    /\ UNCHANGED <<state, channels, pc, tx, log, last, calls, rcv, mem, until, app>>

\* The driver task of process i ends: its process is dropped, and with it
\* the receiver of its input channel and its sender of the channel after.
Exited(r, i) ==
    [r EXCEPT !.driver[i] = "exited",
              !.chans[i].receiver = FALSE,
              !.chans[i].notifier = 0,
              !.chans[OutputChannel(i)].senders = @ - 1]

\* A step of process i advanced or jumped: evaluate_instruction returned
\* Ok(true), or Ok(false) from a jump that was taken.
Effective(next, evaluated) ==
    \/ evaluated = "Ok(true)"
    \/ /\ evaluated = "Ok(false)"
       /\ next.kind = "Some"
       /\ next.instruction.variant \in {"JumpIfTrue", "JumpIfFalse"}

\* The driver of process i takes a notification: it breaks out of its loop
\* if the process is halted, else it runs Process::step and publishes the
\* State, unless the step suspends in Output's notifier.send.
RingTurn(i) ==
    /\ ring.driver[i] = "waiting"
    /\ ring.queue[i] > 0
    /\ IF ring.states[i].halted
       THEN ring' = Exited([ring EXCEPT !.queue[i] = @ - 1], i)
       ELSE \E next \in {next_instruction(ring.states[i])} :
              \E r \in {step(ring.states[i], ring.chans[i],
                             ring.chans[OutputChannel(i)])} :
                 ring' =
                   [ring EXCEPT
                      !.queue[i]    = @ - 1,
                      !.states[i]   = r.state,
                      !.chans       = [@ EXCEPT ![i] = r.rx,
                                                ![OutputChannel(i)] = r.out],
                      !.driver[i]   = CASE r.result = "await send" -> "send"
                                        [] r.result = "panic"      -> "panicked"
                                        [] OTHER                   -> "waiting",
                      !.size[i]     = IF next.kind = "Some" THEN next.size ELSE 0,
                      !.shared[i]   = IF r.result = "Ok(())" THEN r.state ELSE @,
                      !.log[OutputChannel(i)] =
                          IF Len(r.out.buffer) > Len(ring.chans[OutputChannel(i)].buffer)
                          THEN Append(@, [by    |-> i,
                                          value |-> r.out.buffer[Len(r.out.buffer)]])
                          ELSE @,
                      !.received[i] = @ \o r.received,
                      !.advances[i] = IF Effective(next, r.evaluated)
                                      THEN @ + 1 ELSE @]
    /\ UNCHANGED <<state, channels, pc, tx, log, last, calls, rcv, mem, until, app>>

\* The suspended notifier.send of process i completes: room was made in the
\* notifier of its output channel, or the receiver of that channel is gone.
RingResume(i) ==
    /\ ring.driver[i] = "send"
    /\ \E n \in {notifier_send(ring.chans[OutputChannel(i)])} :
         \E evaluated \in {IF n.result = "Ok" THEN "Ok(true)" ELSE "Ok(false)"} :
            /\ n.result # "Pending"
            /\ ring' =
                 [ring EXCEPT
                    !.states[i]   = advance(@, evaluated, ring.size[i]),
                    !.chans[OutputChannel(i)] = n.channel,
                    !.driver[i]   = "waiting",
                    !.shared[i]   = advance(ring.states[i], evaluated, ring.size[i]),
                    !.advances[i] = IF evaluated = "Ok(true)" THEN @ + 1 ELSE @]
    /\ UNCHANGED <<state, channels, pc, tx, log, last, calls, rcv, mem, until, app>>

\* The App is dropped: every sender of a control queue goes with it.
RingDrop ==
    /\ ring.app = "alive"
    /\ ring' = [ring EXCEPT !.app = "dropped"]
    /\ UNCHANGED <<state, channels, pc, tx, log, last, calls, rcv, mem, until, app>>

\* The driver of process i finds its control queue empty and closed: recv
\* returns None and the task ends.
RingEnd(i) ==
    /\ ring.app = "dropped"
    /\ ring.driver[i] = "waiting"
    /\ ring.queue[i] = 0
    /\ ring' = Exited(ring, i)
    /\ UNCHANGED <<state, channels, pc, tx, log, last, calls, rcv, mem, until, app>>

InitWith(s, rx, out) ==
    /\ state = s
    /\ channels = [c \in {"in", "out"} |-> IF c = "in" THEN rx ELSE out]
    /\ pc = Idle
    /\ tx = Senders(rx.senders)
    /\ log = [c \in {"in", "out"} |->
                [NoLog EXCEPT !.appended = IF c = "in" THEN rx.buffer ELSE out.buffer,
                              !.sent     = IF c = "in" THEN rx.notifier ELSE out.notifier]]
    /\ last = NotCalled(s, rx, out)
    /\ calls = [step |-> 0, send |-> 0, recv |-> 0, set |-> 0, until |-> 0]
    /\ until = NotRunning(s)
    /\ app = AppNew(s)
    /\ ring = RingNew(s.memory)
    /\ mem = [loaded |-> s.memory, written |-> {}]
    /\ rcv = NotReceived("out", out)

\* The channels matter to Input and Output only: other programs start with
\* the channels empty.
InitStep ==
    \E w \in OpWords, a \in Operands, b \in Operands, c \in Operands,
       base \in RelativeBases :
      \E rx \in IF Rem(w, 100) = 3 THEN InputChannels
                ELSE {ChannelNew(FALSE)},
         out \in IF Rem(w, 100) = 4 THEN OutputChannels
                 ELSE {ChannelNew(FALSE)} :
        InitWith([StateNew(<<w, a, b, c, 99>>) EXCEPT !.relative_base = base], rx, out)

NextStep == Step(MaxSteps)

SpecStep == InitStep /\ [][NextStep]_vars

\* The programs stepped with a twin: Input, Output, an addition, a jump and
\* an adjustment of the relative base, in each addressing mode they have.
TwinWords == {3, 203, 4, 104, 204, 1101, 1005, 109}

\* What last_input and last_output of the twin hold.
Observed == {None, Some(0), Some(7)}

InitTwin ==
    \E w \in TwinWords, a \in Operands, b \in Operands, base \in RelativeBases :
      \E rx \in IF Rem(w, 100) = 3 THEN InputChannels
                ELSE {ChannelNew(FALSE)},
         out \in IF Rem(w, 100) = 4 THEN OutputChannels
                 ELSE {ChannelNew(FALSE)} :
        InitWith([StateNew(<<w, a, b, 0, 99>>) EXCEPT !.relative_base = base], rx, out)

NextTwin ==
    \E last_input \in Observed, last_output \in Observed :
        TwinStep(MaxSteps, last_input, last_output)

SpecTwin == InitTwin /\ [][NextTwin]_vars

-----------------------------------------------------------------------------
(***************************************************************************)
(* SpecParameter: Parameter::new called on its own, on opcode words with   *)
(* every digit at the three mode positions, on negative words and on       *)
(* operand values below and above 0.                                       *)
(***************************************************************************)

ParameterWords ==
    (0 .. 2299) \cup {d * 10000 + 1002 : d \in 0..9} \cup {-1, -100, -1100, -21002}

ParameterPositions == {1, 2, 3}

ParameterValues == {-1, 0, 4}

\* The history record of a call Parameter::new(opcode, position, value).
ParameterCalled(opcode, position, value) ==
    [op       |-> "Parameter::new",
     opcode   |-> opcode,
     position |-> position,
     value    |-> value,
     returned |-> ParameterNew(opcode, position, value)]
        @@ NotCalled(state, channels["in"], channels["out"])

\* One call of Parameter::new per behaviour.
ParameterNewCall(opcode, position, value) ==
    /\ last.op = "init"
    /\ last' = ParameterCalled(opcode, position, value)
    /\ UNCHANGED <<state, channels, pc, tx, log, calls, rcv, mem, until, app, ring>>

InitParameter == InitWith(StateNew(<<99>>), ChannelNew(FALSE), ChannelNew(FALSE))

NextParameter ==
    \E opcode \in ParameterWords, position \in ParameterPositions,
       value \in ParameterValues :
        ParameterNewCall(opcode, position, value)

SpecParameter == InitParameter /\ [][NextParameter]_vars

-----------------------------------------------------------------------------
(***************************************************************************)
(* SpecBreakpoint: breakpoints evaluated between the steps of a process on *)
(* programs of every variant, with operands in every mode.                 *)
(***************************************************************************)

\* One opcode word or more of every variant.
BreakpointWords == {1, 1002, 3, 104, 4, 1105, 6, 20207, 8, 109, 99}

\* The locations of the MemoryLocation breakpoints.
Locations == 0..9

\* The breakpoints: every location, the breakpoint of every mnemonic, and
\* Instruction breakpoints whose operands are no placeholders.
BreakpointSet ==
         {MemoryLocation(k) : k \in Locations}
    \cup {InstructionBreakpoint(InstructionFrom(NAMES[n])) : n \in DOMAIN NAMES}
    \cup {InstructionBreakpoint([variant |-> "Output", params |-> <<Immediate(7)>>]),
          InstructionBreakpoint([variant |-> "JumpIfTrue",
                                 params |-> <<Relative(-1), Position(2)>>])}

InitBreakpoint ==
    \E w \in BreakpointWords, a \in Operands, c \in Operands :
        InitWith(StateNew(<<w, a, 2, c, 99>>),
                 ChannelHolding(<<7>>, 1, TRUE, FALSE), ChannelNew(FALSE))

NextBreakpoint ==
    \/ Step(MaxSteps)
    \/ \E bp \in BreakpointSet : EvaluateCall(bp)

SpecBreakpoint == InitBreakpoint /\ [][NextBreakpoint]_vars

-----------------------------------------------------------------------------
(***************************************************************************)
(* SpecMemory: the driver steps a process and calls set_memory between the *)
(* steps.  The programs store through every kind of write operand: an Add, *)
(* a LessThan and an Input, each with a Position and a Relative            *)
(* destination.                                                            *)
(***************************************************************************)

StoringWords == {1, 21101, 7, 20207, 3, 203}

\* The indices given to set_memory: inside the dense memory (an operand word
\* and the last word), right behind it, further behind it and at the far end
\* of the address space.
Indices == {3, 4, 5, 6, UsizeModulus - 1}

\* The values given to set_memory.
Stored == {0, 9}

InitMemory ==
    \E w \in StoringWords, a \in Operands, c \in Operands, base \in RelativeBases :
        InitWith([StateNew(<<w, a, 2, c, 99>>) EXCEPT !.relative_base = base],
                 ChannelHolding(<<7>>, 1, TRUE, FALSE), ChannelNew(FALSE))

NextMemory ==
    \/ Step(MaxSteps)
    \/ \E index \in Indices, value \in Stored : SetMemory(index, value)

SpecMemory == InitMemory /\ [][NextMemory]_vars

-----------------------------------------------------------------------------
(***************************************************************************)
(* Spec: a process stepped by its driver while the holders of the other    *)
(* endpoints, the sender of "in" and the receiver of "out", send, receive  *)
(* and drop their endpoints.                                               *)
(***************************************************************************)

\* Programs that read and write the channels: the echo program of the end-to-
\* end scenarios, two inputs stored beyond the program and below address 0,
\* two outputs, and an input read back through the relative base.
Programs ==
    {<<3, 0, 4, 0, 99>>,
     <<3, 5, 203, -1, 99>>,
     <<104, 7, 4, 0, 99>>,
     <<109, 5, 203, 1, 204, 1, 99>>}

\* The values the senders of "in" send.
Values == {7, 8}

\* An output channel whose notifier queue is full.
Full == [i \in 1..NotifierCapacity |-> 0]

Init ==
    \E m \in Programs, blocking \in BOOLEAN, b \in {<< >>, Full} :
        InitWith(StateNew(m), ChannelNew(blocking),
                 ChannelHolding(b, 1, TRUE, TRUE))

Next ==
    \/ Step(MaxCalls)
    \/ ResumeRecv
    \/ ResumeSend
    \/ \E v \in Values : SendPush(1, v)
    \/ SendNotify(1)
    \/ DropSender(1)
    \/ Recv("out")
    \/ RecvWake("out")
    \/ DropReceiver("out")

Spec == Init /\ [][Next]_vars

-----------------------------------------------------------------------------
(***************************************************************************)
(* SpecChannel: the channel "in" used directly through its endpoints, the  *)
(* sender, its clone and the receiver, each of which may be dropped.       *)
(***************************************************************************)

\* A channel one notification short of a full notifier queue.
AlmostFull == [i \in 1..(NotifierCapacity - 1) |-> 0]

InitChannel ==
    \E blocking \in BOOLEAN, b \in {<< >>, AlmostFull} :
        InitWith(StateNew(<<99>>), ChannelHolding(b, 1, TRUE, blocking),
                 ChannelNew(TRUE))

NextChannel ==
    \/ \E id \in SenderIds, v \in Values : SendPush(id, v)
    \/ \E id \in SenderIds : SendNotify(id)
    \/ \E id \in SenderIds : CloneSender(id)
    \/ \E id \in SenderIds : DropSender(id)
    \/ Recv("in")
    \/ RecvWake("in")
    \/ DropReceiver("in")

SpecChannel == InitChannel /\ [][NextChannel]_vars

\* The runtime wakes a suspended recv once a notification is queued or the
\* notifier is closed.
SpecChannelLive == SpecChannel /\ WF_vars(RecvWake("in"))

\* The holder of the Channel takes snapshots of the buffer while the senders
\* and the receiver are at work.
InitBuffer ==
    \E blocking \in BOOLEAN :
        InitWith(StateNew(<<99>>), ChannelNew(blocking), ChannelNew(TRUE))

NextBuffer ==
    \/ \E id \in SenderIds, v \in Values : SendPush(id, v)
    \/ \E id \in SenderIds : SendNotify(id)
    \/ \E id \in SenderIds : CloneSender(id)
    \/ Recv("in")
    \/ RecvWake("in")
    \/ DropReceiver("in")
    \/ Buffers("in")

SpecBuffer == InitBuffer /\ [][NextBuffer]_vars

-----------------------------------------------------------------------------
(***************************************************************************)
(* run: whole programs run from their first instruction to Halt.           *)
(***************************************************************************)

\* The program that compares its input with 8.
EqualsEight == <<3, 9, 8, 9, 10, 9, 4, 9, 99, -1, 8>>

\* The program that walks the relative base over its own sixteen cells.
SelfCopy == <<109, 1, 204, -1, 1001, 100, 1, 100, 1008, 100, 16, 101, 1006, 101, 0, 99>>

\* The programs with the input each is given.
Scenarios ==
    {[memory |-> SelfCopy,    input |-> << >>],
     [memory |-> EqualsEight, input |-> <<8>>],
     [memory |-> EqualsEight, input |-> <<7>>]}

InitRun ==
    \E scenario \in Scenarios, blocking \in BOOLEAN :
        InitWith(StateNew(scenario.memory),
                 ChannelHolding(scenario.input, 1, TRUE, blocking),
                 ChannelNew(FALSE))

NextRun == Run(MaxRunSteps)

SpecRun == InitRun /\ [][NextRun]_vars

\* Programs that read once and twice from a blocking input channel whose
\* sender sends and then goes away while run is at work.
ClosingPrograms ==
    {<<3, 0, 99>>,
     <<3, 0, 3, 1, 99>>}

InitRunClosed ==
    \E m \in ClosingPrograms, b \in {<< >>, <<7>>} :
        InitWith(StateNew(m), ChannelHolding(b, 1, TRUE, TRUE), ChannelNew(FALSE))

NextRunClosed ==
    \/ RunCall
    \/ RunTurn(MaxSteps)
    \/ ResumeRecv
    \/ SendPush(1, 8)
    \/ SendNotify(1)
    \/ DropSender(1)

SpecRunClosed == InitRunClosed /\ [][NextRunClosed]_vars

\* The task that called run is scheduled again and again, and a suspended
\* recv is woken once it can complete.
SpecRunClosedLive ==
    SpecRunClosed /\ WF_vars(RunTurn(MaxSteps)) /\ WF_vars(ResumeRecv)

-----------------------------------------------------------------------------
(***************************************************************************)
(* App: one process of the ring with its driver task.  The caller of       *)
(* App::step and the reader of states() run concurrently with the driver;  *)
(* the neighbours of the process send to its input channel and receive     *)
(* from its output channel, both of which are polled.                      *)
(***************************************************************************)

\* An echo, an output of a constant, an addition, a lone Halt.
AppPrograms ==
    {<<3, 0, 4, 0, 99>>,
     <<104, 7, 99>>,
     <<1101, 1, 1, 0, 99>>,
     <<99>>}

InitApp ==
    \E m \in AppPrograms, queued \in {<< >>, Full} :
        InitWith(StateNew(m), ChannelHolding(<<5>>, 1, TRUE, FALSE),
                 ChannelHolding(queued, 1, TRUE, FALSE))

NextApp ==
    \/ AppStepCheck(MaxRequests)
    \/ AppStepSend
    \/ DriverTake
    \/ DriverStep(MaxCalls)
    \/ DriverPublish
    \/ States
    \/ ResumeSend
    \/ Recv("out")

SpecApp == InitApp /\ [][NextApp]_vars

\* A program that outputs 0 over and over.
Flooding == <<104, 0, 1105, 1, 0>>

\* The caller steps this one process only, so no other process of the ring
\* is ever stepped and nothing is received from the output channel, which
\* like the input channel holds the one value App::new has sent to it.
InitFlood ==
    InitWith(StateNew(Flooding), ChannelHolding(<<5>>, 1, TRUE, FALSE),
             ChannelHolding(<<6>>, 1, TRUE, FALSE))

NextFlood ==
    \/ AppStepCheck(MaxFlood)
    \/ AppStepSend
    \/ DriverTake
    \/ DriverStep(MaxFlood)
    \/ DriverPublish

SpecFlood == InitFlood /\ [][NextFlood]_vars

-----------------------------------------------------------------------------
(***************************************************************************)
(* SpecRing: the ring of App::new over a short program, the caller sending *)
(* step requests to any process in any order, the driver tasks taking them *)
(* in any interleaving, the App dropped at any moment.                     *)
(***************************************************************************)

\* An echo of one value, and an output of a constant that reads nothing.
Echo == <<3, 0, 4, 0, 99>>

OutputThenHalt == <<104, 7, 99>>

RingPrograms == {Echo, OutputThenHalt}

InitRing ==
    \E program \in RingPrograms :
       InitWith(StateNew(program), ChannelNew(FALSE), ChannelNew(FALSE))

NextRing ==
    \/ \E i \in Procs : RingRequest(i)
    \/ \E i \in Procs : RingTurn(i)
    \/ RingDrop
    \/ \E i \in Procs : RingEnd(i)

SpecRing == InitRing /\ [][NextRing]_vars

(***************************************************************************)
(* SpecFlooded: the ring over the program that outputs 0 for ever, taken   *)
(* up where every process has filled the notifier of the channel after it  *)
(* and stands before its next Output.                                      *)
(***************************************************************************)

\* What process k - 1 has appended to channel k to fill its notifier.
Filling(k) ==
    [e \in 1..(NotifierCapacity - Len(Constructed(k))) |->
        [by |-> IF k = 0 THEN 4 ELSE k - 1, value |-> 0]]

FloodedRing ==
    [RingNew(Flooding) EXCEPT
       !.states   = [i \in Procs |-> [StateNew(Flooding) EXCEPT !.last_output = Some(0)]],
       !.shared   = [i \in Procs |-> [StateNew(Flooding) EXCEPT !.last_output = Some(0)]],
       !.chans    = [k \in Procs |->
                       ChannelHolding(Constructed(k) \o LogValues(Filling(k)),
                                      1, TRUE, FALSE)],
       !.log      = [k \in Procs |-> ByApp(Constructed(k)) \o Filling(k)],
       !.advances = [i \in Procs |-> 2 * Len(Filling(OutputChannel(i)))]]

InitFlooded ==
    /\ state = StateNew(Flooding)
    /\ channels = [c \in {"in", "out"} |-> ChannelNew(FALSE)]
    /\ pc = Idle
    /\ tx = Senders(1)
    /\ log = [c \in {"in", "out"} |-> NoLog]
    /\ last = NotCalled(state, channels["in"], channels["out"])
    /\ calls = [step |-> 0, send |-> 0, recv |-> 0, set |-> 0, until |-> 0]
    /\ until = NotRunning(state)
    /\ app = AppNew(state)
    /\ ring = FloodedRing
    /\ mem = [loaded |-> state.memory, written |-> {}]
    /\ rcv = NotReceived("out", channels["out"])

NextFlooded ==
    \/ \E i \in Procs : RingRequest(i)
    \/ \E i \in Procs : RingTurn(i)
    \/ \E i \in Procs : RingResume(i)
    \/ RingDrop
    \/ \E i \in Procs : RingEnd(i)

SpecFlooded == InitFlooded /\ [][NextFlooded]_vars

\* What the driver tasks can do.
Drivers == \E i \in Procs : RingTurn(i) \/ RingResume(i) \/ RingEnd(i)

-----------------------------------------------------------------------------
(***************************************************************************)
(* run_until: the driver of bin/tui.rs and the io_loop of bin/day15.rs     *)
(* run a process up to a breakpoint and step it from there.  The input     *)
(* channel is polled and fed by one sender, the receiver of the output     *)
(* channel may be dropped.                                                 *)
(***************************************************************************)

\* An echo, an immediate output followed by an echo of cell 0, a jump past
\* the end of memory, and an addition before an output.
UntilPrograms ==
    {<<3, 0, 4, 0, 99>>,
     <<104, 7, 4, 0, 99>>,
     <<1105, 1, 5, 0, 99>>,
     <<1101, 1, 1, 0, 4, 0, 99>>}

\* The breakpoint collections run_until is called with: the Output
\* predicate of io_loop, Halt, a memory location, Input or Output, none.
UntilBreakpoints ==
    {<<InstructionBreakpoint(InstructionFrom("OUT"))>>,
     <<InstructionBreakpoint(InstructionFrom("HLT"))>>,
     <<MemoryLocation(3)>>,
     <<InstructionBreakpoint(InstructionFrom("INP")),
       InstructionBreakpoint(InstructionFrom("OUT"))>>,
     << >>}

InitUntil ==
    \E m \in UntilPrograms, b \in {<< >>, <<7>>} :
        InitWith(StateNew(m), ChannelHolding(b, 1, TRUE, FALSE),
                 ChannelHolding(<< >>, 1, TRUE, FALSE))

NextUntil ==
    \/ \E breakpoints \in UntilBreakpoints : RunUntilCall(breakpoints)
    \/ RunUntilLoop(MaxCalls)
    \/ Step(MaxCalls)
    \/ SendPush(1, 8)
    \/ SendNotify(1)
    \/ DropReceiver("out")

SpecUntil == InitUntil /\ [][NextUntil]_vars

-----------------------------------------------------------------------------
(***************************************************************************)
(* The claims.                                                             *)
(***************************************************************************)

IsPrefix(s, t) == Len(s) <= Len(t) /\ SubSeq(t, 1, Len(s)) = s

\* The last call of step decoded an instruction of one of the variants and
\* returned.
Executed(variants) == Decoded(last) /\ last.next.instruction.variant \in variants

\* The operands of the instruction the last call of step decoded.
Operand(i) == last.next.instruction.params[i]

\* C1: on every channel, also one several senders send on, the values recv has
\* returned are at every moment a prefix of the values in the order send
\* appended them, and the values not yet returned are the buffer: none is
\* duplicated, dropped or reordered.
C1_ReceivedIsPrefixOfAppended ==
    \A c \in DOMAIN channels :
        /\ IsPrefix(log[c].received, log[c].appended)
        /\ log[c].appended = log[c].received \o channels[c].buffer

\* C1 witness: both the sender and its clone exist and two different values
\* have been received.
C1_Witness ==
    /\ tx[2] # "none"
    /\ Len(log["in"].received) >= 2
    /\ log["in"].received[1] # log["in"].received[2]

\* C2 as claimed: a step that executes Halt sets halted and leaves the
\* instruction pointer where it was.
C2_HaltKeepsInstructionPointer ==
    Executed({"Halt"}) =>
        /\ state.halted
        /\ state.instruction_pointer = last.pre.instruction_pointer

\* C2 amended: a step that executes Halt sets halted and advances the
\* instruction pointer by 1, the size of Halt.
C2_HaltAdvancesInstructionPointer ==
    Executed({"Halt"}) =>
        /\ state.halted
        /\ state.instruction_pointer = last.pre.instruction_pointer + 1

\* C2 witness: a step has executed Halt somewhere after the first word.
C2_Witness == Executed({"Halt"}) /\ last.pre.instruction_pointer > 0

\* The arity the claim gives each variant.
ClaimedArity(variant) ==
    CASE variant \in {"Add", "Multiply", "LessThan", "Equals"} -> 3
      [] variant \in {"AdjustRelativeBaseOffset", "Input", "Output"} -> 1
      [] variant \in {"JumpIfTrue", "JumpIfFalse"} -> 2

\* The steps C3 is about: arithmetic and the relative base adjustment, an Input
\* that received a value, an Output whose send succeeded, a jump whose
\* condition is not met.
C3_Advancing ==
    \/ Executed({"Add", "Multiply", "LessThan", "Equals", "AdjustRelativeBaseOffset"})
    \/ Executed({"Input"}) /\ last.received # None
    \/ Executed({"Output"}) /\ last.out_post.notifier = last.out_pre.notifier + 1
    \/ Executed({"JumpIfTrue"}) /\ EvalRead(last.pre, Operand(1)) = 0
    \/ Executed({"JumpIfFalse"}) /\ EvalRead(last.pre, Operand(1)) # 0

\* C3: after such a step the instruction pointer is the old one plus 1 plus the
\* arity of the instruction executed.
C3_AdvanceBySize ==
    C3_Advancing =>
        state.instruction_pointer =
            last.pre.instruction_pointer + 1 + ClaimedArity(last.next.instruction.variant)

\* C3 witness: a JumpIfTrue whose condition is not met was executed as the
\* second instruction of a program.
C3_Witness ==
    /\ Executed({"JumpIfTrue"})
    /\ EvalRead(last.pre, Operand(1)) = 0
    /\ last.pre.instruction_pointer > 0

\* C4: a step on a halted process returns Ok, sends and receives nothing and
\* leaves every field of the state as it was.
C4_StepOnHaltedIsNoOp ==
    (last.op = "step" /\ last.pre.halted) =>
        /\ last.result = "Ok(())"
        /\ state = last.pre
        /\ last.received = None
        /\ last.rx_post = last.rx_pre
        /\ last.out_post = last.out_pre

\* C4 witness: the second step in a row on a halted process.
C4_Witness == last.op = "step" /\ last.pre.halted /\ calls.step = 3

\* The last call of step decoded an Input with a legal destination.
InputCalled ==
    /\ last.op = "step"
    /\ last.next.kind = "Some"
    /\ last.next.instruction.variant = "Input"
    /\ ~IsImmediate(Operand(1))

\* The receiver of the channel yields no value: nothing is pending and the
\* channel is polling, or blocking with every sender dropped.
YieldsNone(ch) == ch.notifier = 0 /\ (~ch.block_on_recv \/ ch.senders = 0)

\* C5: a step that executes Input while the receiver yields no value returns Ok
\* and leaves the instruction pointer, both memories, the relative base,
\* last_input and halted as they were.
C5_InputWithoutValueChangesNothing ==
    (InputCalled /\ YieldsNone(last.rx_pre)) =>
        /\ last.result = "Ok(())"
        /\ state.instruction_pointer = last.pre.instruction_pointer
        /\ state.memory = last.pre.memory
        /\ state.additional_memory = last.pre.additional_memory
        /\ state.relative_base = last.pre.relative_base
        /\ state.last_input = last.pre.last_input
        /\ state.halted = last.pre.halted

\* C5 witness: an Input whose destination lies beyond the dense memory found a
\* blocking channel closed with nothing pending.
C5_Witness ==
    /\ InputCalled /\ YieldsNone(last.rx_pre)
    /\ last.rx_pre.block_on_recv
    /\ EvalWrite(last.pre, Operand(1)) >= Len(last.pre.memory)

\* C6: when a step on Input found no value on a polling channel and the next
\* step of the process receives a value, that step executes the same Input
\* instruction, the value is the next one in the order of the sends (none is
\* lost or skipped), it is stored at the destination and the instruction
\* pointer advances by 2.
C6_InputIsResumable ==
    (Decoded(last) /\ last.retry.is /\ ~last.rx_pre.block_on_recv
                   /\ last.received # None) =>
        /\ last.next = last.retry.next
        /\ last.next.instruction.variant = "Input"
        /\ last.received[1] = log["in"].appended[Len(log["in"].received)]
        /\ Index(state, EvalWrite(last.pre, Operand(1))) = last.received[1]
        /\ state.instruction_pointer = last.pre.instruction_pointer + 2

\* C6 witness: the second Input of a program found no value, a value was sent
\* and the next step received it.
C6_Witness ==
    /\ Decoded(last) /\ last.retry.is /\ ~last.rx_pre.block_on_recv
    /\ last.received # None
    /\ last.pre.instruction_pointer > 0

\* The cells the states before and after the last step can tell apart.
Cells ==
    (0 .. Len(last.pre.memory) + 2)
        \cup DOMAIN last.pre.additional_memory \cup DOMAIN state.additional_memory

\* C7: a step that executes Input(dst) while a value is pending removes exactly
\* the oldest value v from the channel, stores v at the write address of dst,
\* sets last_input to v and changes no other cell, nor relative_base or halted.
C7_InputStoresOldestValue ==
    (InputCalled /\ last.rx_pre.notifier > 0) =>
        LET dest == EvalWrite(last.pre, Operand(1))
            v    == Head(last.rx_pre.buffer)
        IN  /\ last.result = "Ok(())"
            /\ last.received = Some(v)
            /\ last.rx_post.buffer = Tail(last.rx_pre.buffer)
            /\ last.rx_post.notifier = last.rx_pre.notifier - 1
            /\ Index(state, dest) = v
            /\ state.last_input = Some(v)
            /\ Len(state.memory) = Len(last.pre.memory)
            /\ \A i \in Cells \ {dest} : Index(state, i) = Index(last.pre, i)
            /\ state.relative_base = last.pre.relative_base
            /\ state.halted = last.pre.halted

\* C7 witness: of two pending values the older was stored beyond the dense
\* memory.
C7_Witness ==
    /\ InputCalled
    /\ Len(last.rx_pre.buffer) = 2 /\ last.rx_pre.notifier = 2
    /\ last.rx_pre.buffer[1] # last.rx_pre.buffer[2]
    /\ EvalWrite(last.pre, Operand(1)) >= Len(last.pre.memory)

\* C8: a step that executes Output(v) and whose send succeeds appends exactly
\* read(v) at the tail of the output buffer, sets last_output to it, leaves the
\* memories and relative_base alone and advances the instruction pointer by 2.
C8_OutputAppendsValue ==
    (Executed({"Output"}) /\ last.evaluated = "Ok(true)") =>
        LET v == EvalRead(last.pre, Operand(1))
        IN  /\ last.out_post.buffer = Append(last.out_pre.buffer, v)
            /\ state.last_output = Some(v)
            /\ state.memory = last.pre.memory
            /\ state.additional_memory = last.pre.additional_memory
            /\ state.relative_base = last.pre.relative_base
            /\ state.instruction_pointer = last.pre.instruction_pointer + 2

\* C8 witness: an Output of 7 that found the notifier queue full succeeded
\* after the receiver made room.
C8_Witness ==
    /\ Executed({"Output"}) /\ last.evaluated = "Ok(true)"
    /\ last.out_pre.notifier = NotifierCapacity
    /\ state.last_output = Some(7)

\* C9: a step that executes Output and whose send fails, which it does only
\* when the receiver of the channel is gone, returns Ok, leaves the instruction
\* pointer alone and does not halt, so that the same Output is next again.
C9_OutputFailureIsSoft ==
    (last.op = "step" /\ last.next.kind = "Some"
                      /\ last.next.instruction.variant = "Output"
                      /\ last.evaluated = "Ok(false)") =>
        /\ last.result = "Ok(())"
        /\ ~channels["out"].receiver
        /\ state.instruction_pointer = last.pre.instruction_pointer
        /\ ~state.halted
        /\ next_instruction(state) = last.next

\* C9 witness: the receiver was dropped while the Output waited for room in
\* the notifier queue.
C9_Witness ==
    /\ Executed({"Output"}) /\ last.evaluated = "Ok(false)"
    /\ last.out_pre.receiver

\* No send is in progress on channel "in".
Quiescent == \A id \in SenderIds : tx[id] # "notify"

\* C10 as claimed: whenever no send is in progress, the number of successful
\* sends is the number of successful receives plus the length of the buffer.
C10_SendsAreReceivesPlusBuffer ==
    Quiescent =>
        log["in"].sent = Len(log["in"].received) + Len(channels["in"].buffer)

\* The last poll of a recv found a blocking channel.
BlockingPolled == rcv.result # "none" /\ rcv.pre.block_on_recv

\* C11, what a recv on a blocking channel does when polled: with every sender
\* dropped it returns the oldest value still in the buffer, which is the next
\* one in the order of the sends, and removes it, or returns None once nothing
\* is left; with a sender alive and no notification queued it suspends.
C11_PolledBlocking ==
    BlockingPolled =>
        /\ (rcv.pre.senders = 0 /\ rcv.pre.buffer # << >>) =>
               /\ rcv.at = "idle"
               /\ rcv.value = Some(Head(rcv.pre.buffer))
               /\ rcv.value[1] = log[rcv.c].appended[Len(log[rcv.c].received)]
               /\ rcv.post.buffer = Tail(rcv.pre.buffer)
        /\ (rcv.pre.senders = 0 /\ rcv.pre.buffer = << >>) =>
               /\ rcv.at = "idle"
               /\ rcv.result = "None"
               /\ rcv.post = rcv.pre
        /\ (rcv.pre.senders > 0 /\ rcv.pre.notifier = 0) =>
               /\ rcv.at = "recv"
               /\ rcv.value = None
               /\ rcv.post = rcv.pre

\* C11, a suspended recv stays suspended over every step taken while a sender
\* is alive and no notification is queued.
C11_StaysSuspended ==
    (rcv.at = "recv" /\ channels[rcv.c].senders > 0 /\ channels[rcv.c].notifier = 0)
        => rcv'.at = "recv"

\* C11: on a blocking channel, once every sender (the original and its clones)
\* is dropped, recv returns the values still pending in the order of the sends
\* and then None, and a recv that was suspended returns instead of staying
\* suspended; while a sender is alive and nothing is pending recv is suspended
\* and returns nothing.
C11_BlockingRecvClosesAfterDraining ==
    /\ []C11_PolledBlocking
    /\ [][C11_StaysSuspended]_vars
    /\ (rcv.at = "recv" /\ channels[rcv.c].senders = 0) ~> (rcv.at = "idle")

\* C11 witness: with the sender and its clone both dropped, recv returned a
\* pending value and then None.
C11_Witness ==
    /\ BlockingPolled
    /\ tx = [id \in SenderIds |-> "dropped"]
    /\ rcv.drained >= 1
    /\ rcv.result = "None"

\* C12: on a polling channel recv never suspends; when a notification is
\* pending it returns the oldest value of the buffer and removes it, otherwise
\* it returns None and leaves the buffer as it was.
C12_PollingRecvNeverSuspends ==
    (rcv.result # "none" /\ ~rcv.pre.block_on_recv) =>
        /\ rcv.at = "idle"
        /\ ~rcv.waited
        /\ rcv.pre.notifier > 0 =>
               /\ rcv.value = Some(Head(rcv.pre.buffer))
               /\ rcv.post.buffer = Tail(rcv.pre.buffer)
        /\ rcv.pre.notifier = 0 =>
               /\ rcv.result = "None"
               /\ rcv.value = None
               /\ rcv.post.buffer = rcv.pre.buffer

\* C12 witness: a polling recv returned None although a value was in the
\* buffer, its send being under way, while a sender was alive.
C12_Witness ==
    /\ rcv.result = "None" /\ ~rcv.pre.block_on_recv
    /\ rcv.pre.buffer # << >>
    /\ rcv.pre.senders > 0

Arithmetic == {"Add", "Multiply", "LessThan", "Equals"}

\* C13: the cell at index i reads v right after v was stored to it, by
\* set_memory(i, v) or by the write operand of an instruction (the result of an
\* Add, Multiply, LessThan or Equals, the value an Input received), whether i
\* lies inside the dense memory or beyond it.
C13_ReadAfterWrite ==
    /\ last.op = "set_memory" => Index(state, last.index) = last.value
    /\ Executed(Arithmetic) =>
           Index(state, EvalWrite(last.pre, Operand(3))) =
               Compute(last.next.instruction.variant,
                       EvalRead(last.pre, Operand(1)), EvalRead(last.pre, Operand(2)))
    /\ (Executed({"Input"}) /\ last.received # None) =>
           Index(state, EvalWrite(last.pre, Operand(1))) = last.received[1]

\* C13 witness: set_memory overwrote a cell beyond the dense memory that held a
\* different value.
C13_Witness ==
    /\ last.op = "set_memory"
    /\ last.index >= Len(last.pre.memory)
    /\ last.index \in DOMAIN last.pre.additional_memory
    /\ last.pre.additional_memory[last.index] # last.value

\* The addresses beyond the dense memory the state can tell apart.
Beyond ==
    (Len(state.memory) .. Len(state.memory) + 3)
        \cup {i \in Indices \cup DOMAIN state.additional_memory : i >= Len(state.memory)}

\* C14: after any sequence of set_memory calls and steps the dense memory has
\* the length it was loaded with, every key of additional_memory is at least
\* that length, an address beyond the dense memory that was never written
\* reads 0, and the last write changed the value read at no other address.
C14_MemoryShape ==
    /\ Len(state.memory) = Len(mem.loaded)
    /\ \A k \in DOMAIN state.additional_memory : k >= Len(state.memory)
    /\ \A i \in Beyond \ mem.written : Index(state, i) = 0
    /\ \A i \in Written(last) :
           \A j \in Cells \ {i} : Index(state, j) = Index(last.pre, j)

\* C14 witness: after a set_memory at the far end of the address space, an
\* instruction stored right behind the dense memory.
C14_Witness ==
    /\ Executed(Arithmetic)
    /\ EvalWrite(last.pre, Operand(3)) = Len(mem.loaded)
    /\ (UsizeModulus - 1) \in DOMAIN state.additional_memory
    /\ calls.set >= 1

Jumps == {"JumpIfTrue", "JumpIfFalse"}

\* The jump the last step executed was taken: JumpIfTrue on a condition that
\* is not 0, JumpIfFalse on a condition that is 0.
JumpTaken ==
    (last.next.instruction.variant = "JumpIfTrue") = (EvalRead(last.pre, Operand(1)) # 0)

\* What C15 says a jump leaves alone.
JumpKeepsTheRest ==
    /\ state.memory = last.pre.memory
    /\ state.additional_memory = last.pre.additional_memory
    /\ state.relative_base = last.pre.relative_base
    /\ state.halted = last.pre.halted

\* C15 as claimed: a jump that is taken sets the instruction pointer to exactly
\* read(t), one that is not taken advances it by 3; memory, relative_base and
\* halted are unchanged.
C15_JumpSetsPointerToTarget ==
    Executed(Jumps) =>
        /\ JumpTaken => state.instruction_pointer = EvalRead(last.pre, Operand(2))
        /\ ~JumpTaken => state.instruction_pointer = last.pre.instruction_pointer + 3
        /\ JumpKeepsTheRest

\* C15 amended: a jump that is taken sets the instruction pointer to read(t)
\* cast to usize, which is read(t) when read(t) >= 0 and the modulus of usize
\* plus read(t) when it is negative, with no further advance; one that is not
\* taken advances it by 3; memory, relative_base and halted are unchanged.
C15_JumpSetsPointerToCastTarget ==
    Executed(Jumps) =>
        LET target == EvalRead(last.pre, Operand(2))
        IN  /\ JumpTaken =>
                   state.instruction_pointer =
                       IF target >= 0 THEN target ELSE UsizeModulus + target
            /\ ~JumpTaken => state.instruction_pointer = last.pre.instruction_pointer + 3
            /\ JumpKeepsTheRest

\* C15 witness: a JumpIfFalse was taken to a negative target.
C15_Witness ==
    /\ Executed({"JumpIfFalse"}) /\ JumpTaken
    /\ EvalRead(last.pre, Operand(2)) < 0

\* C16: a step that executes Add, Multiply, LessThan or Equals on (a, b, dst)
\* stores, at the write address of dst, read(a) + read(b), read(a) * read(b),
\* 1 if read(a) < read(b) else 0, or 1 if read(a) = read(b) else 0, a and b
\* being read in the state before the store, also where dst is the cell of an
\* operand or a word of the instruction; no other cell changes.
C16_ArithmeticStoresResult ==
    Executed(Arithmetic) =>
        LET variant == last.next.instruction.variant
            a       == EvalRead(last.pre, Operand(1))
            b       == EvalRead(last.pre, Operand(2))
            dst     == EvalWrite(last.pre, Operand(3))
        IN  /\ variant = "Add"      => Index(state, dst) = a + b
            /\ variant = "Multiply" => Index(state, dst) = a * b
            /\ variant = "LessThan" => Index(state, dst) = IF a < b THEN 1 ELSE 0
            /\ variant = "Equals"   => Index(state, dst) = IF a = b THEN 1 ELSE 0
            /\ Len(state.memory) = Len(last.pre.memory)
            /\ \A j \in Cells \ {dst} : Index(state, j) = Index(last.pre, j)

\* C16 witness: an Equals whose destination is the cell its first operand is
\* read from, which held another value than the result.
C16_Witness ==
    /\ Executed({"Equals"})
    /\ Operand(1).mode = "Position"
    /\ Operand(1).value = EvalWrite(last.pre, Operand(3))
    /\ Index(state, Operand(1).value) # Index(last.pre, Operand(1).value)

\* The address C17 gives a Position or Relative operand, as claimed.
ClaimedAddress(s, param) ==
    IF param.mode = "Position" THEN param.value ELSE s.relative_base + param.value

\* The same address cast to usize: a negative sum wraps around.
CastAddress(s, param) ==
    LET address == ClaimedAddress(s, param)
    IN  IF address >= 0 THEN address ELSE UsizeModulus + address

\* The last step behaved as if its operands were evaluated by mode in the state
\* before it, Address giving the address of a Position or Relative operand: the
\* value Output reports, the delta of the relative base, the condition and
\* target of a jump, the operands of an arithmetic instruction and the one cell
\* it or an Input stores to.  Nothing is said of a read at an address below 0.
OperandsFollowMode(Address(_, _)) ==
    LET Readable(i) == IsImmediate(Operand(i)) \/ Address(last.pre, Operand(i)) >= 0
        Read(i)     == IF IsImmediate(Operand(i)) THEN Operand(i).value
                       ELSE Index(last.pre, Address(last.pre, Operand(i)))
        OnlyStoresTo(address) ==
            \A j \in Cells \ {address} : Index(state, j) = Index(last.pre, j)
    IN  /\ (Executed({"Output"}) /\ Readable(1)) => state.last_output = Some(Read(1))
        /\ (Executed({"AdjustRelativeBaseOffset"}) /\ Readable(1)) =>
               state.relative_base = last.pre.relative_base + Read(1)
        /\ (Executed(Jumps) /\ Readable(1) /\ Readable(2)) =>
               state.instruction_pointer =
                   IF (last.next.instruction.variant = "JumpIfTrue") = (Read(1) # 0)
                   THEN AsUsize(Read(2))
                   ELSE last.pre.instruction_pointer + 3
        /\ Executed(Arithmetic) =>
               LET dst == Address(last.pre, Operand(3))
               IN  /\ OnlyStoresTo(dst)
                   /\ (Readable(1) /\ Readable(2) /\ dst >= 0) =>
                          Index(state, dst) =
                              Compute(last.next.instruction.variant, Read(1), Read(2))
        /\ (Executed({"Input"}) /\ last.received # None) =>
               LET dst == Address(last.pre, Operand(1))
               IN  /\ OnlyStoresTo(dst)
                   /\ dst >= 0 => Index(state, dst) = last.received[1]

\* C17 as claimed: a read operand yields memory[p] for Position p, v for
\* Immediate v and memory[relative_base + d] for Relative d; a write operand
\* designates the address p for Position p and relative_base + d for Relative
\* d; relative_base is the one in force before the instruction.
C17_OperandsAddressedBySum == OperandsFollowMode(ClaimedAddress)

\* C17 amended: the same, the address of a Relative operand being
\* relative_base + d cast to usize: the sum itself when it is >= 0, the
\* modulus of usize plus the sum when it is negative.
C17_OperandsAddressedByCastSum == OperandsFollowMode(CastAddress)

\* C17 witness: an arithmetic instruction stored through a Relative destination
\* whose sum with the relative base is negative.
C17_Witness ==
    /\ Executed(Arithmetic)
    /\ Operand(3).mode = "Relative"
    /\ last.pre.relative_base + Operand(3).value < 0

\* C18: a step that executes AdjustRelativeBaseOffset(v) adds read(v), a signed
\* delta, to relative_base and 2 to the instruction pointer; no memory cell, no
\* other field of the state and neither channel changes.
C18_AdjustAddsDelta ==
    Executed({"AdjustRelativeBaseOffset"}) =>
        /\ state = [last.pre EXCEPT
                       !.relative_base = @ + EvalRead(last.pre, Operand(1)),
                       !.instruction_pointer = @ + 2]
        /\ last.rx_post = last.rx_pre
        /\ last.out_post = last.out_pre

\* C18 witness: a negative delta read through the relative base took a
\* relative base of 3 below 3.
C18_Witness ==
    /\ Executed({"AdjustRelativeBaseOffset"})
    /\ Operand(1).mode = "Relative"
    /\ last.pre.relative_base = 3
    /\ state.relative_base < 3

\* The last call of step decoded an Add, Multiply, LessThan, Equals or Input
\* whose destination operand is Immediate.
ImmediateDestination ==
    /\ last.op = "step"
    /\ last.next.kind = "Some"
    /\ \/ /\ last.next.instruction.variant \in Arithmetic
          /\ IsImmediate(Operand(3))
       \/ /\ last.next.instruction.variant = "Input"
          /\ IsImmediate(Operand(1))

\* C19: a step on an Add, Multiply, LessThan, Equals or Input whose destination
\* operand is Immediate panics before any effect: the process is gone, no cell
\* was written, the instruction pointer and every other field of the state are
\* as before, and no value was taken from the input channel.
C19_ImmediateDestinationPanics ==
    ImmediateDestination =>
        /\ last.result = "panic"
        /\ pc.at = "panicked"
        /\ state = last.pre
        /\ last.received = None
        /\ channels["in"] = last.rx_pre
        /\ channels["out"] = last.out_pre

\* C19 witness: an Input with an Immediate destination while two values are
\* pending on its channel.
C19_Witness ==
    /\ ImmediateDestination
    /\ last.next.instruction.variant = "Input"
    /\ last.rx_pre.notifier = 2

\* The operations of the instruction set.
Operations == {1, 2, 3, 4, 5, 6, 7, 8, 9, 99}

\* The word at the instruction pointer of a state that points into its dense
\* memory.
WordAt(s) == s.memory[s.instruction_pointer + 1]

\* The decimal digit of a word that gives the mode of operand position.
ModeDigit(word, position) == (word \div Pow10(position + 1)) % 10

\* The word does not decode: its operation, the word modulo 100 (as the
\* remainder of Rust or as the modulus of arithmetic), is none of the
\* instruction set, or the mode digit of one of the operands of its operation
\* is none of 0, 1, 2.
Faulty(word) ==
    \/ Rem(word, 100) \notin Operations
    \/ (word % 100) \notin Operations
    \/ \E position \in 1..ParamArity(word % 100) :
           ModeDigit(word, position) \notin {0, 1, 2}

\* The last call of step was on a state that is not halted and points at a
\* faulty word inside the memory it was loaded with.
SteppedOnFaulty ==
    /\ last.op = "step"
    /\ ~last.pre.halted
    /\ last.pre.instruction_pointer < Len(last.pre.memory)
    /\ Faulty(WordAt(last.pre))

\* C20: a step on a state that is not halted and points, inside the loaded
\* memory, at a word that does not decode panics and changes no field of the
\* state and neither channel: the process ends at the faulty instruction.
C20_FaultyWordPanics ==
    SteppedOnFaulty =>
        /\ last.result = "panic"
        /\ pc.at = "panicked"
        /\ state = last.pre
        /\ channels["in"] = last.rx_pre
        /\ channels["out"] = last.out_pre

\* C20 witness: a word of a known operation with a mode digit 3 at its last
\* operand.
C20_Witness ==
    /\ SteppedOnFaulty
    /\ Rem(WordAt(last.pre), 100) \in Operations
    /\ ModeDigit(WordAt(last.pre), ParamArity(Rem(WordAt(last.pre), 100))) = 3

\* The mode digit C21 names: (O / 10^(p+1)) mod 10, the division being the
\* truncating one of the program.
ClaimedModeDigit(O, p) == Div(O, Pow10(p + 1)) % 10

\* What C21 says of a call Parameter::new(O, p, value) whose mode 0 yields
\* Position(index): the mode is the digit named, 1 gives Immediate(value), 2
\* gives Relative(value), any other digit is a failure, and the word 1002 gives
\* Position, Immediate, Position at the positions 1, 2, 3.
ParameterByDigit(index) ==
    last.op = "Parameter::new" =>
        LET digit == ClaimedModeDigit(last.opcode, last.position)
        IN  /\ digit = 0 => last.returned = [mode |-> "Position", value |-> index]
            /\ digit = 1 => last.returned = [mode |-> "Immediate", value |-> last.value]
            /\ digit = 2 => last.returned = [mode |-> "Relative", value |-> last.value]
            /\ digit \notin {0, 1, 2} => last.returned.mode = "panic"
            /\ last.opcode = 1002 =>
                   last.returned.mode =
                       <<"Position", "Immediate", "Position">>[last.position]

C22_AbsentIffHalted ==
    (next_instruction(state).kind = "None") <=> state.halted

\* The instruction a word and the operand words behind it decode to, by the
\* tables of the instruction set.
VariantOf(operation) ==
    CASE operation \in {1, 2, 7, 8} ->
             <<"Add", "Multiply", "", "", "", "", "LessThan", "Equals">>[operation]
      [] operation \in {3, 4, 9} ->
             <<"", "", "Input", "Output", "", "", "", "",
               "AdjustRelativeBaseOffset">>[operation]
      [] operation \in {5, 6} ->
             <<"", "", "", "", "JumpIfTrue", "JumpIfFalse">>[operation]
      [] operation = 99 -> "Halt"

\* C22 amended: next_instruction is absent exactly when the process is halted
\* or the instruction pointer is at or beyond State::len, the length of the
\* dense memory plus the number of cells stored beyond it; otherwise it panics
\* on a faulty word or returns the instruction decoded from the words at the
\* instruction pointer (0 where nothing is stored) with the size 1 + arity.
C22_AbsentIffHaltedOrBeyondLen ==
    LET n    == next_instruction(state)
        ip   == state.instruction_pointer
        word == Index(state, ip)
    IN  /\ (n.kind = "None") <=>
               \/ state.halted
               \/ ip >= Len(state.memory) + Cardinality(DOMAIN state.additional_memory)
        /\ (n.kind = "panic") <=> (n.kind # "None" /\ Faulty(word))
        /\ n.kind = "Some" =>
               /\ n.instruction.variant = VariantOf(word % 100)
               /\ n.size = 1 + ParamArity(word % 100)
               /\ DOMAIN n.instruction.params = 1..ParamArity(word % 100)
               /\ \A p \in DOMAIN n.instruction.params :
                      /\ n.instruction.params[p].mode =
                             <<"Position", "Immediate", "Relative">>[ModeDigit(word, p) + 1]
                      /\ n.instruction.params[p].value =
                             IF ModeDigit(word, p) = 0
                             THEN AsUsize(Index(state, ip + p))
                             ELSE Index(state, ip + p)

\* C22 witness: a process that is not halted points behind its dense memory,
\* at a cell stored there, and the instruction is decoded, its operand being
\* read where nothing is stored.
C22_Witness ==
    /\ ~state.halted
    /\ state.instruction_pointer >= Len(state.memory)
    /\ state.instruction_pointer \in DOMAIN state.additional_memory
    /\ next_instruction(state).kind = "Some"
    /\ (state.instruction_pointer + 1) \notin DOMAIN state.additional_memory

\* The arity of every variant, Halt included.
ArityOf(variant) == IF variant = "Halt" THEN 0 ELSE ClaimedArity(variant)

\* C25: Breakpoint::MemoryLocation(k) evaluates to true exactly when
\* IP <= k < IP + 1 + arity of the next instruction: k is the opcode word or
\* one of the operand words; it is false for k = IP + 1 + arity and for k < IP.
C25_MemoryLocationInInstruction ==
    (last.op = "Breakpoint::evaluate" /\ last.breakpoint.kind = "MemoryLocation") =>
        LET k  == last.breakpoint.location
            ip == last.pre.instruction_pointer
        IN  last.returned <=>
                (ip <= k /\ k < ip + 1 + ArityOf(last.instruction.variant))

\* C25 witness: the location of the last operand word of an instruction that
\* is not the first of the program evaluated to true.
C25_Witness ==
    /\ last.op = "Breakpoint::evaluate" /\ last.breakpoint.kind = "MemoryLocation"
    /\ last.pre.instruction_pointer > 0
    /\ ArityOf(last.instruction.variant) > 0
    /\ last.breakpoint.location =
           last.pre.instruction_pointer + ArityOf(last.instruction.variant)
    /\ last.returned

\* C26: Breakpoint::Instruction(v) evaluates to true exactly when the next
\* instruction has the variant of v, whatever the operands and modes of
\* either; the breakpoint of a mnemonic, with its placeholder operands, matches
\* every instruction of its variant and none of another.
C26_InstructionMatchesVariant ==
    (last.op = "Breakpoint::evaluate" /\ last.breakpoint.kind = "Instruction") =>
        last.returned <=>
            (last.breakpoint.instruction.variant = last.instruction.variant)

\* C26 witness: the breakpoint of the mnemonic OUT matched an Output whose
\* operand is not the placeholder.
C26_Witness ==
    /\ last.op = "Breakpoint::evaluate"
    /\ last.breakpoint = InstructionBreakpoint(InstructionFrom("OUT"))
    /\ last.instruction.variant = "Output"
    /\ last.instruction # InstructionFrom("OUT")
    /\ last.returned

\* run_until has returned and the process has not been stepped since.
JustReturned == until.at = "returned" /\ until.after = 0

\* The predicate of the present call of run_until is true of state s and its
\* next instruction.
BreakpointHolds(s) ==
    LET next == next_instruction(s)
    IN  /\ next.kind = "Some"
        /\ Breakpoints_evaluate(until.breakpoints, s, next.instruction)

\* C23: whenever run_until(bp) returns, the process is halted, or bp is true
\* of the state and the next instruction, or a channel operation (the recv of
\* an Input, the send of an Output) failed during the run.
C23_ReturnHasAReason ==
    JustReturned => state.halted \/ BreakpointHolds(state) \/ ChannelFailed

\* C23 witness: run_until has stepped and then returned from a process that is
\* not halted and of which the predicate is false: the recv of an Input gave
\* no value.
C23_Witness ==
    /\ JustReturned
    /\ until.iterations > 0
    /\ ~state.halted
    /\ ~BreakpointHolds(state)
    /\ last.next.instruction.variant = "Input"

\* The predicate of io_loop: the next instruction is an Output.
OutputPredicate == <<InstructionBreakpoint(InstructionFrom("OUT"))>>

\* C24: run_until(pred) steps over no instruction of which pred is true; when
\* pred is true of the first next instruction the state is as it was at the
\* call and nothing has been sent or received; and the one step made after
\* run_until returned on the Output predicate appends exactly one value to the
\* output channel.
C24_StopsBeforeTheMatch ==
    /\ (until.at \in {"loop", "returned"} /\ until.after = 0
            /\ until.iterations > 0 /\ last.next.kind = "Some")
        => ~Breakpoints_evaluate(until.breakpoints, last.pre, last.next.instruction)
    /\ (JustReturned /\ BreakpointHolds(until.pre))
        => /\ state = until.pre
           /\ until.iterations = 0
           /\ Len(log["out"].appended) = until.appended
           /\ Len(log["in"].received) = until.received
    /\ (until.at = "returned" /\ until.after = 1 /\ pc.at # "panicked"
            /\ until.reason = "breakpoint" /\ until.breakpoints = OutputPredicate)
        => /\ last.next.kind = "Some"
           /\ last.next.instruction.variant = "Output"
           /\ last.out_post.buffer =
                  Append(last.out_pre.buffer, state.last_output[1])

\* C24 witness: run_until with the Output predicate has stepped over an
\* addition and returned, and the one step made since has put a value into
\* the output channel.
C24_Witness ==
    /\ until.at = "returned"
    /\ until.after = 1
    /\ until.breakpoints = OutputPredicate
    /\ until.iterations > 0
    /\ last.next.instruction.variant = "Output"
    /\ Len(last.out_post.buffer) = 1

\* The values the process has put into its output channel, in order.
Emitted == log["out"].appended

\* The run has emitted a beginning of the values expected, all of them once
\* the process is halted, and it has neither panicked nor been suspended.
RunEmits(expected) ==
    /\ pc.at = "idle"
    /\ Len(Emitted) <= Len(expected)
    /\ Emitted = SubSeq(expected, 1, Len(Emitted))
    /\ state.halted => Emitted = expected
    /\ log["out"].sent = Len(Emitted)

\* C27 as claimed: run with no input, SelfCopy emits the integers 1..16 in
\* that order and then halts.
C27_EmitsOneToSixteen ==
    mem.loaded = SelfCopy => RunEmits([k \in 1..16 |-> k])

\* C27: run with no input, SelfCopy emits its own sixteen cells 109, 1, 204,
\* -1, 1001, 100, 1, 100, 1008, 100, 16, 101, 1006, 101, 0, 99 in that order
\* and then halts.
C27_EmitsItsOwnCells ==
    mem.loaded = SelfCopy => RunEmits(SelfCopy)

\* C27 witness: SelfCopy has halted after sixteen values.
C27_Witness ==
    /\ mem.loaded = SelfCopy
    /\ state.halted
    /\ Len(Emitted) = 16

\* C28: EqualsEight run with the single input 8 emits exactly one value, 1,
\* and then halts; with the single input 7 it emits exactly one value, 0, and
\* then halts.
C28_EmitsWhetherInputIsEight ==
    /\ (mem.loaded = EqualsEight /\ log["in"].appended = <<8>>) => RunEmits(<<1>>)
    /\ (mem.loaded = EqualsEight /\ log["in"].appended = <<7>>) => RunEmits(<<0>>)

\* C28 witness: EqualsEight has taken the input 7 and halted.
C28_Witness ==
    /\ mem.loaded = EqualsEight
    /\ log["in"].received = <<7>>
    /\ state.halted
    /\ Emitted = <<0>>

\* The driver is between taking a notification and calling step.
AboutToStep == IF app.driver = "step" THEN 1 ELSE 0

\* At most one instruction executes per request, and the shared handle holds
\* the process's actual state whenever the driver waits for a notification.
OneStepPerRequest ==
    /\ calls.step = app.stepped
    /\ app.stepped <= app.taken
    /\ app.taken <= app.sent
    /\ app.sent <= app.requested
    /\ app.driver = "waiting" => app.shared = state

\* C29 as claimed: each notification taken by the driver causes exactly one
\* call of step, so at most one instruction executes per Step request, and
\* the driver, when it waits for its next notification, has published the
\* process's actual state.
C29_EveryNotificationSteps ==
    /\ app.taken = app.stepped + AboutToStep
    /\ OneStepPerRequest

\* C29: each notification taken by the driver while the process is not halted
\* causes exactly one call of step; the one taken when the process is halted
\* causes none and ends the driver.  At most one instruction executes per
\* Step request, and the driver, when it waits for its next notification, has
\* published the process's actual state.
C29_NotificationStepsUnlessHalted ==
    /\ app.taken = app.stepped + AboutToStep + (IF app.driver = "exited" THEN 1 ELSE 0)
    /\ app.driver = "exited" => state.halted /\ app.shared = state
    /\ OneStepPerRequest

\* C29 witness: the driver has taken two notifications, made a step for each
\* and waits again, the process not halted.
C29_Witness ==
    /\ app.driver = "waiting"
    /\ app.taken = 2
    /\ app.stepped = 2
    /\ ~state.halted
    /\ state.instruction_pointer > 0

\* C30: every State returned by states() is the process's state at a step
\* boundary: its actual state when the driver is not inside a step, and the
\* state the step started from while the driver is inside step (suspended in
\* a send, or returned and not yet published); never a state between the two.
C30_StatesAreStepBoundaries ==
    app.seen.read =>
        app.seen.state = IF app.seen.driver \in {"stepping", "publish", "panicked"}
                         THEN app.seen.before
                         ELSE app.seen.actual

\* C30 witness: states() was called while step was suspended in the send of an
\* Output, after last_output was set: the State returned does not show it.
C30_Witness ==
    /\ app.seen.read
    /\ app.seen.during = "send"
    /\ app.seen.actual.last_output # None
    /\ app.seen.state.last_output = None

\* C31: once the shared handle reports halted it never changes, and the
\* driver makes no call of step on a halted process: the notification it takes
\* then only ends the driver task.
C31_HaltedIsFinal ==
    [][/\ app.shared.halted => app'.shared = app.shared
       /\ calls'.step # calls.step => ~state.halted
       /\ (app'.driver = "exited" /\ app.driver # "exited")
            => (state.halted /\ app'.shared = state)]_vars

\* C31 witness: the process has executed Halt, the driver has published and
\* has then exited on the next notification; states() still reports the
\* halted state.
C31_Witness ==
    /\ app.driver = "exited"
    /\ app.shared.halted
    /\ app.shared = state
    /\ ~channels["in"].receiver

\* The values appended to channel c and not yet received, oldest first.
Undelivered(c) ==
    SubSeq(log[c].appended, Len(log[c].received) + 1, Len(log[c].appended))

\* C33: Channel::buffer() returns the buffer's contents oldest first, which
\* are the values appended and not yet received; the call leaves the buffer,
\* the pending notifications and what the next recv returns as they were; and
\* no later send or recv alters a snapshot already returned.
C33_BufferIsAPureSnapshot ==
    [][IF app'.buffers.count # app.buffers.count
       THEN /\ app'.buffers.value = channels["in"].buffer
            /\ app'.buffers.value = Undelivered("in")
            /\ channels'["in"].buffer = channels["in"].buffer
            /\ channels'["in"].notifier = channels["in"].notifier
            /\ recv(channels'["in"]) = recv(channels["in"])
       ELSE app'.buffers.value = app.buffers.value]_vars

\* C33 witness: a snapshot of two values was returned and a recv has since
\* taken the older of them out of the buffer.
C33_Witness ==
    /\ app.buffers.count > 0
    /\ Len(app.buffers.value) = 2
    /\ channels["in"].buffer = Tail(app.buffers.value)
    /\ rcv.result = "Some"

\* A State without the two fields kept for observation.
Core(s) ==
    [memory              |-> s.memory,
     additional_memory   |-> s.additional_memory,
     instruction_pointer |-> s.instruction_pointer,
     relative_base       |-> s.relative_base,
     halted              |-> s.halted]

\* C34: a process and a twin that differs from it in last_input and
\* last_output only, stepped against the same channel contents, have after
\* the step the same memory, additional_memory, instruction_pointer,
\* relative_base and halted flag, have received the same value and leave both
\* channels the same, with the same outcome of step.
C34_LastValuesAreObservationOnly ==
    (app.twin # None /\ last.op = "step") =>
        LET twin == app.twin[1]
        IN  /\ Core(twin.pre) = Core(last.pre)
            /\ Core(twin.post.state) = Core(state)
            /\ twin.post.received = last.received
            /\ twin.post.rx = last.rx_post
            /\ twin.post.out = last.out_post
            /\ twin.post.result = last.result
            /\ twin.post.evaluated = last.evaluated

\* C34 witness: an Output sent the value last_output held in the process and
\* did not hold in the twin, after an earlier step of the two.
C34_Witness ==
    /\ app.twin # None
    /\ calls.step > 1
    /\ last.op = "step"
    /\ last.next.kind = "Some"
    /\ last.next.instruction.variant = "Output"
    /\ last.evaluated = "Ok(true)"
    /\ last.pre.last_output = state.last_output
    /\ app.twin[1].pre.last_output # last.pre.last_output

\* run is at an Input whose blocking channel is closed with nothing pending:
\* the recv of its last step gave no value.
InputClosed ==
    /\ app.run = "loop"
    /\ InputFoundNone(last)
    /\ channels["in"].block_on_recv
    /\ channels["in"].senders = 0
    /\ channels["in"].notifier = 0
    /\ ~state.halted

\* C36: once run has reached an Input whose blocking channel is closed with
\* nothing pending, run eventually returns to its caller with the process
\* not halted.
C36_RunReturnsAfterFailure ==
    InputClosed ~> (app.run = "returned" /\ ~state.halted)

\* C37: the pending notifications of a channel are never more than the
\* values in its buffer, whatever the senders, the clone and the receiver have
\* done so far; a recv that obtained a notification found the buffer
\* non-empty, and no recv has failed on an empty buffer.
C37_NotificationsWithinBuffer ==
    /\ \A c \in {"in", "out"} : channels[c].notifier <= Len(channels[c].buffer)
    /\ rcv.result # "panic"
    /\ rcv.at # "panicked"
    /\ rcv.result = "Some" => rcv.pre.buffer # << >>

\* C37 witness: the sender and its clone are both between their push and
\* their notification, and the receiver has taken a value.
C37_Witness ==
    /\ tx[1] = "notify"
    /\ tx[2] = "notify"
    /\ rcv.result = "Some"
    /\ channels["in"].notifier < Len(channels["in"].buffer)

\* C38: App::step never returns an error: the caller never sends on the
\* control queue of a driver that has exited, because it has then already
\* seen halted in the shared state.
C38_StepNeverFails ==
    /\ app.result # "Err"
    /\ ~(app.caller = "send" /\ app.driver = "exited")

\* C39: no reachable state has the driver suspended in the send of an Output
\* on a full output channel while the caller is suspended in App::step on the
\* full control queue of that driver.
C39_CallerNeverStuck ==
    ~ /\ pc.at = "send"
      /\ channels["out"].notifier = NotifierCapacity
      /\ app.caller = "send"
      /\ app.queue = NotifierCapacity

\* C35: in the ring over 5 processes a value output by process i is
\* delivered to the input of process (i + 1) mod 5 and to no other process:
\* everything ever appended to channel k is the values of construction
\* followed by outputs of the process before k in the ring, and is what
\* process k has received followed by what its input buffer still holds.  In
\* particular the outputs of the last process lie on the first channel
\* behind the two values placed there at construction.
C35_RingDelivery ==
    \A k \in Procs :
       LET l == ring.log[k]
           c == Len(Constructed(k))
       IN  /\ Len(l) >= c
           /\ \A e \in 1..Len(l) :
                 IF e <= c
                 THEN l[e] = [by |-> -1, value |-> Constructed(k)[e]]
                 ELSE /\ l[e].by \in Procs
                      /\ (l[e].by + 1) % 5 = k
           /\ LogValues(l) = ring.received[k] \o ring.chans[k].buffer

\* The last process has echoed its phase onto the first channel, behind the
\* phase and the signal of the first process.
C35_Witness ==
    /\ ring.log[0] = <<[by |-> -1, value |-> 5], [by |-> -1, value |-> 0],
                       [by |-> 4, value |-> 9]>>
    /\ ring.chans[0].buffer = <<5, 0, 9>>
    /\ ring.received[4] = <<9>>


\* C32: once the App is dropped, and with it every sender of a control
\* queue, every driver task eventually ends, whatever instruction its
\* process was about to execute or was executing: as long as a driver task
\* has not ended, some driver task can still make progress.
Ended(i) == ring.driver[i] \in {"exited", "panicked"}

C32_DriversEndAfterDrop ==
    ring.app = "dropped" => \/ \A i \in Procs : Ended(i)
                            \/ ENABLED <<Drivers>>_vars

\* C40: execution is deterministic under scheduling.  For a fixed program
\* and fixed initial channel contents, every interleaving of step requests
\* and driver turns gives each process the same sequence of emitted values
\* and the same State after the same number of advancing or jumping steps:
\* at every step boundary both are those of the program run alone for that
\* many steps on the values the process has received, with every output
\* accepted.  That run is itself one of the interleavings (the caller
\* requests no step of a halted process), so a process that departs from it
\* departs from another interleaving.
RECURSIVE Reference(_, _, _, _)
Reference(s, inputs, outputs, k) ==
    IF k = 0
    THEN [state |-> s, outputs |-> outputs]
    ELSE LET next == next_instruction(s)
             r    == step(s, ChannelHolding(inputs, 1, TRUE, FALSE), ChannelNew(FALSE))
         IN  IF Effective(next, r.evaluated)
             THEN Reference(r.state, r.rx.buffer, outputs \o r.out.buffer, k - 1)
             ELSE [state |-> s, outputs |-> outputs]

EmittedBy(i) ==
    LET ByProcess(e) == e.by = i
    IN  LogValues(SelectSeq(ring.log[OutputChannel(i)], ByProcess))

AsAlone(i) ==
    LET alone == Reference(StateNew(ring.program), ring.received[i], << >>,
                           ring.advances[i])
    IN  /\ ring.states[i] = alone.state
        /\ EmittedBy(i) = alone.outputs

C40_DeterministicUnderScheduling ==
    ring.app = "alive" => \A i \in Procs : ring.driver[i] # "send" => AsAlone(i)

=============================================================================
